---- MODULE Spec2Model ----
(***************************************************************************)
(* State-machine model of the smart-speaker runtime (fl-shoon/sm_speaker). *)
(*                                                                         *)
(*   Spec      : SpeakerCore.run with the wake listener task, the          *)
(*               conversation loop, the signal handler and cleanup; the    *)
(*               chunk loop of record_question, which never yields to the  *)
(*               event loop, is one step                                   *)
(*   SpecRec   : PyRecorder.record_question, chunk by chunk, on a device   *)
(*               that opens and closes without error                       *)
(*   SpecQuiet : record_question of a recorder that was never calibrated   *)
(*               (no chunk is speech), with every device failure           *)
(*                                                                         *)
(* Python's None is the string "None" for object references and the empty  *)
(* tuple <<>> for optional numbers (a number x is <<x>>).                  *)
(***************************************************************************)
EXTENDS Integers, Sequences, FiniteSets, TLC

(***************************************************************************)
(* Program constants of PyRecorder / record_question                       *)
(***************************************************************************)
CHUNK_DURATION_MS == 30
CHUNKS_PER_SECOND == 1000 \div CHUNK_DURATION_MS
max_retries_four == 3 + 1
max_retries == 3
silence_duration == 2
max_duration == 30
no_speech_window == 5
max_silent_chunks == silence_duration * CHUNKS_PER_SECOND
max_device_errors == 3
SNR_THRESHOLD == 10
NOISE_FLOOR == 100
ENERGY_SCALE == 1
default_silence_energy == 1000
default_energy_threshold == 3000
\* PicoVoiceTrigger.__init__ (pico.py:41)
pico_max_retries == 3
ai_max_retries == 3         \* conversation.py:17
history_limit == 11         \* conversation.py:66
history_keep == 10          \* conversation.py:67
MaxHistory == 13
QueueMax == 4
MaxCaptured == 7
\* the buttons of the device (transmission/serverManager.py:22, 95)
NumButtons == 5

\* SpeakerCore.process_conversation
max_silence_three == 2 + 1
max_silence == 2

(***************************************************************************)
(* Bounds of the model                                                     *)
(***************************************************************************)
\* read errors are injected only while device_error_count is below this cap
MaxErrCount == 4
\* the ghost counter of chunk reads issued after the exit event saturates here
ReadsCap == 2

\* signals delivered to the process
MaxSignals == 1
\* wake listener tasks spawned by one run
MaxWakes == 2
\* turns of one conversation
MaxTurns == 3
\* tokens of a reply of the language model
MaxReplyLen == 2
\* the ghost counter of classifier ticks of one listener task saturates here
TicksCap == 2

\* the ghost counter of failed reads in a row of one listener task
\* saturates here
ReadFailsCap == 4

\* the history counter of initialize() calls saturates here
InitCallsCap == 5

\* chunks an audio file played by play_audio holds at most
MaxChunks == 2

\* how many times in a row a close routine is called on one device
CloseCalls == 2

\* filtered signal energies a captured chunk may have (quiet, loud)
ChunkEnergies == {0, 50000}

VARIABLES
    exit_event,          \* utils.exit_event
    \* ---- PyRecorder fields
    stream,              \* PyRecorder.stream: "None" or "stream"
    handle,              \* OS state of the capture handle opened last:
                         \* "closed", "active" or "stopped" (open, paused)
    leaked,              \* an earlier handle was never closed
    energy_threshold,    \* <<>> or <<n>>
    silence_energy,      \* <<>> or <<n>>
    device_error_count,
    \* ---- record_question locals
    rqPc,
    attempt,
    frames,              \* number of chunks appended to frames
    silent_chunks,
    is_speaking,
    total_chunks,
    rqResult,            \* "pending", "None", "frames", "cancelled"
    \* ---- history of the current record_question call
    open_calls,          \* pyaudio.open calls issued
    open_ok,             \* one of them succeeded
    reads_after_exit,    \* chunk reads issued while exit_event was set
    all_speech,          \* every chunk read so far was classified speech
    close_fault,         \* some stop_stream()/close() raised in this call
    \* ---- SpeakerCore
    corePc,              \* position of SpeakerCore.run
    device_retry_count,
    cleanup_attempted,
    tasks,               \* SpeakerCore.tasks
    wake_word, py_recorder, audio_player, display,   \* "obj" or "None"
    \* ---- the task running WakeWord.listen_for_wake_word
    wkPc,
    wkResult,            \* "pending", "TRIGGER", "OTHER", "NoneType" for
                         \* (False, None), "raised", "cancelled"
    wkCancel,            \* task.cancel() was called on it
    play_trigger,        \* WakeWord.play_trigger is not None
    audio_stream,        \* WakeWord.audio_stream: "None" or "stream"
    wkHandle,            \* OS state of the listener's capture handle
    pyaudio_instance,    \* WakeWord.pyaudio_instance: "None" or "pa"
    \* ---- process_conversation
    cvPc,
    silence_count,
    conversation_active,
    \* ---- DisplayModule
    dispState,           \* what the panel shows: "white", "listening", "logo"
    display_active,      \* DisplayModule._active
    \* ---- signal handler and the cleanup coroutines
    signals,             \* signals handled so far
    clPc,                \* position of each SpeakerCore.cleanup call: 0 is the
                         \* call made by run, k >= 1 the task of signal k
    \* ---- history
    wake_spawns,         \* listener tasks created
    triggers,            \* listener tasks that returned (True, TRIGGER)
    conv_entries,        \* process_conversation calls
    wkTicks,             \* classifier calls of the current listener task
    trigger_tick,        \* tick at which the current conversation's wake matched
    turns,               \* iterations of the conversation loop
    rq_turn,             \* record_question calls of the current turn
    rq_calls,            \* record_question calls of the conversation
    pa_calls,            \* process_audio calls of the conversation
    consec_empty,        \* empty recordings in a row
    cv_end,              \* "none", or "silence" once line 185-186 ran
    reply_sentinel,      \* the reply of this turn carried the sentinel
    \* ---- AudioPlayer
    current_stream,      \* AudioPlayer.current_stream: "None" or "stream"
    player_pa,           \* AudioPlayer.pyaudio_instance: "None" or "pa"
    playback_active,     \* AudioPlayer.playback_active
    out_stream,          \* the local `stream` of the play_audio call in
                         \* progress: "None", "open", or "closed" once
                         \* somebody else closed it
    \* ---- the session of the display / button server
    session,             \* ServerManager._session: "open" or "closed"
    \* ---- Application.run and main
    pending_exc,         \* CancelledError is propagating out of run
    exit_code,           \* <<>> while the process runs, then <<code>>
    \* ---- history
    late_io,             \* a chunk was written to an output stream that
                         \* cleanup had closed
    steps_skipped,       \* a cleanup call reached its finally block
                         \* without running the stages after the failed one
    wk_read_fails,       \* reads of the listener that raised IOError in a
                         \* row (saturates)
    run_cleaned,         \* a cleanup call made by run has returned
    \* ---- history of the close routines, per device, since its last open
    close_calls,         \* stream.close() calls issued on the handle
    term_calls,          \* PyAudio.terminate() calls issued on the instance
    closes_done,         \* calls of the device's close routine made
    \* ---- one AudioPlayer.play_audio call followed chunk by chunk
    plPc,                \* "idle", "loop", "sleep" (line 84), "done"
    plEnd,               \* how the call ended: "none", "unavailable",
                         \* "finished", "failed", "cancelled"
    data_left,           \* chunks of the file not read yet
    chunks_written,      \* chunks the call has written
    plCancel,            \* the task running the call was cancelled
    audio_available,     \* AudioPlayer.audio_available
    \* ---- history of the resume step of record_question
    resume_tries,        \* start_stream() calls made to resume the capture
    \* ---- PicoVoiceTrigger.__init__ (pico.py)
    picoPc,              \* "loop_head", "release", "initialize", "audio", "ready", "fatal"
    retry_count,         \* the local retry_count of __init__
    porcupine,           \* PicoVoiceTrigger.porcupine: "None" or "obj"
    pvAudio,             \* PicoVoiceTrigger.audio: "None" or "pa"
    pvStream,            \* PicoVoiceTrigger.audio_stream: "None" or "stream"
    init_calls,          \* history: initialize() calls made (saturates)
    \* ---- concurrent callers of Application.cleanup and cleanup_display
    appPc,               \* position of each caller of Application.cleanup
    appLock,             \* Application._cleanup_lock: "free" or its holder
    is_shutdown,         \* Application._is_shutdown
    app_bodies,          \* history: times the body of lines 91-134 was entered
    dcPc,                \* position of each caller of the display's cleanup
    dispLock,            \* DisplayModule._cleanup_lock: "free" or its holder
    is_cleaning,         \* DisplayModule._is_cleaning
    dm_set,              \* DisplayModule.display_manager is not None
    dm_active,           \* DisplayModule._active
    disp_bodies,         \* history: times the body of lines 205-236 was entered
    server_releases,     \* history: cleanup_server() calls issued
    \* ---- history of the turn (process_conversation)
    svc_failed,          \* a service call of the turn's process_audio failed
    \* ---- ServerManager.get_buttons
    btn_data,            \* ServerManager.btn_data
    active_buttons,      \* what the last get_buttons call returned
    poll_state,          \* the last poll: "none", "ok" or "failed"
    raw_last,            \* history: raw states at the last successful poll
    raw_before,          \* history: raw states at the one before it
    \* ---- history of the listener's button check
    exit_edge,           \* the poll of the last check reported a back/exit edge
    \* ---- one call of calibrate_energy_threshold
    cal_frames,          \* history: the frame list of the last call
    cal_done,            \* history: a call has returned
    cal_failed,          \* history: the except branch of the last call ran
    \* ---- calls of PicoVoiceTrigger.process and initialize by threads
    prPc,                \* where each calling thread is
    prOp,                \* the method each thread called
    prResult,            \* what the last call of each thread returned
    pvLock,              \* PicoVoiceTrigger._lock: the thread that holds it, or None
    \* ---- processes in PicoVoiceTrigger._initialize_audio
    lfPc,                \* where each process is
    lfAlive,             \* the process exists
    lockFile,            \* /tmp/audio_device.lock: who created it, the pid in it
    foreign_removed,     \* history: a lock file of another live process was removed
    \* ---- ConversationClient.generate_ai_reply
    conversation_history,\* ConversationClient.conversation_history, as roles
    gaPc,                \* where the call is
    gaAttempt,           \* the loop variable attempt
    gaResult,            \* what the call returned
    user_appends,        \* history: times this call appended the user's message
    \* ---- PvRecorder: the audio callback thread and read()
    is_recording,        \* PvRecorder._is_recording
    audio_queue,         \* PvRecorder._audio_queue, frames by capture number
    overflow_count,      \* PvRecorder._overflow_count
    cbPc,                \* where the callback is
    to_discard,          \* the passes left of the loop of line 64
    next_frame,          \* the capture number of the next frame
    delivered,           \* history: the frames read() returned, in order
    dropped,             \* history: the frames whose put_nowait raised Full
    discarded,           \* history: the frames the callback took out
    measured,            \* history: qsize() of the last overflow
    discarded_now,       \* history: frames taken out in the last overflow
    ran_empty            \* history: get_nowait raised Empty in the last overflow

devVars   == <<stream, handle, leaked, close_fault>>
calibVars == <<energy_threshold, silence_energy>>
loopVars  == <<frames, silent_chunks, is_speaking, total_chunks, all_speech>>
recVars   == <<devVars, calibVars, loopVars, device_error_count, rqPc,
               attempt, rqResult, open_calls, open_ok, reads_after_exit>>

rqLocals  == <<loopVars, device_error_count, rqPc, attempt, rqResult,
               open_calls, open_ok, reads_after_exit>>

coreVars  == <<corePc, device_retry_count, cleanup_attempted, tasks>>
refVars   == <<wake_word, py_recorder, audio_player, display>>
wakeVars  == <<wkPc, wkResult, wkCancel, play_trigger, wkTicks>>
wkDevVars == <<audio_stream, wkHandle, pyaudio_instance>>
convVars  == <<cvPc, silence_count, conversation_active>>
dispVars  == <<dispState, display_active>>
sigVars   == <<signals, clPc>>
histVars  == <<wake_spawns, triggers, conv_entries, trigger_tick, turns,
               rq_turn, rq_calls, pa_calls, consec_empty, cv_end,
               reply_sentinel>>
playVars  == <<current_stream, player_pa, out_stream, late_io,
               playback_active>>
appVars   == <<session, pending_exc, exit_code>>
closeVars == <<close_calls, term_calls, closes_done>>
plVars    == <<plPc, plEnd, data_left, chunks_written, plCancel,
               audio_available>>
resVars   == <<resume_tries>>
picoVars  == <<picoPc, retry_count, porcupine, pvAudio, pvStream, init_calls>>
guardVars == <<appPc, appLock, is_shutdown, app_bodies, dcPc, dispLock, is_cleaning, dm_set, dm_active, disp_bodies, server_releases>>
turnVars  == <<svc_failed>>
btnVars   == <<btn_data, active_buttons, poll_state, raw_last, raw_before>>
edgeVars  == <<exit_edge>>
calVars   == <<cal_frames, cal_done, cal_failed>>
procVars  == <<prPc, prOp, prResult, pvLock>>
lockVars  == <<lfPc, lfAlive, lockFile, foreign_removed>>
aiVars    == <<conversation_history, gaPc, gaAttempt, gaResult, user_appends>>
queueVars == <<is_recording, audio_queue, overflow_count, cbPc, to_discard, next_frame, delivered, dropped, discarded, measured, discarded_now, ran_empty>>
unitVars  == <<closeVars, plVars, resVars, picoVars, guardVars, turnVars, btnVars, edgeVars, calVars, procVars, lockVars, aiVars, queueVars>>
\* the unit variables but those of one group
othersCloseVars == <<plVars, resVars, picoVars, guardVars, turnVars, btnVars, edgeVars, calVars, procVars, lockVars, aiVars, queueVars>>
othersPlVars == <<closeVars, resVars, picoVars, guardVars, turnVars, btnVars, edgeVars, calVars, procVars, lockVars, aiVars, queueVars>>
othersResVars == <<closeVars, plVars, picoVars, guardVars, turnVars, btnVars, edgeVars, calVars, procVars, lockVars, aiVars, queueVars>>
othersPicoVars == <<closeVars, plVars, resVars, guardVars, turnVars, btnVars, edgeVars, calVars, procVars, lockVars, aiVars, queueVars>>
othersGuardVars == <<closeVars, plVars, resVars, picoVars, turnVars, btnVars, edgeVars, calVars, procVars, lockVars, aiVars, queueVars>>
othersTurnVars == <<closeVars, plVars, resVars, picoVars, guardVars, btnVars, edgeVars, calVars, procVars, lockVars, aiVars, queueVars>>
othersBtnVars == <<closeVars, plVars, resVars, picoVars, guardVars, turnVars, edgeVars, calVars, procVars, lockVars, aiVars, queueVars>>
othersEdgeVars == <<closeVars, plVars, resVars, picoVars, guardVars, turnVars, btnVars, calVars, procVars, lockVars, aiVars, queueVars>>
othersCalVars == <<closeVars, plVars, resVars, picoVars, guardVars, turnVars, btnVars, edgeVars, procVars, lockVars, aiVars, queueVars>>
othersProcVars == <<closeVars, plVars, resVars, picoVars, guardVars, turnVars, btnVars, edgeVars, calVars, lockVars, aiVars, queueVars>>
othersLockVars == <<closeVars, plVars, resVars, picoVars, guardVars, turnVars, btnVars, edgeVars, calVars, procVars, aiVars, queueVars>>
othersAiVars == <<closeVars, plVars, resVars, picoVars, guardVars, turnVars, btnVars, edgeVars, calVars, procVars, lockVars, queueVars>>
othersQueueVars == <<closeVars, plVars, resVars, picoVars, guardVars, turnVars, btnVars, edgeVars, calVars, procVars, lockVars, aiVars>>
othersProcPicoVars == <<closeVars, plVars, resVars, guardVars, turnVars, btnVars, edgeVars, calVars, lockVars, aiVars, queueVars>>
auxVars   == <<playVars, appVars, steps_skipped, wk_read_fails,
               run_cleaned, unitVars>>
orchVars  == <<coreVars, refVars, wakeVars, wkDevVars, convVars, dispVars,
               sigVars, histVars, auxVars>>

vars == <<exit_event, recVars, orchVars>>

None == "None"
NoNumber == <<>>
\* nan, the float that is no number (0 / 0): neither None nor a value
NaN == <<0, 0>>
IsNumber(x) == Len(x) = 1

\* ServerManager.btn_data at construction (serverManager.py:22)
AllReleased == [i \in 1 .. NumButtons |-> FALSE]

\* the callers of Application.cleanup (main.py:159, 169)
AppCallers == {"run_finally", "signal_task"}
Callers == {"t1", "t2"}
Procs == {"p1", "p2", "p3"}
NoPid == "nopid"
Absent == [creator |-> "none", pid |-> "none"]

\* the callers of DisplayModule.cleanup_display: two SpeakerCore.cleanup
\* calls in progress (core.py:321) and _emergency_cleanup (display.py:196)
DispCallers == {"core_cleanup", "signal_cleanup", "error_path"}

\* the objects that own an audio device: PyRecorder, WakeWord, AudioPlayer
Devices == {"recorder", "listener", "player"}

Max(a, b) == IF a >= b THEN a ELSE b

(***************************************************************************)
(* PyRecorder.is_speech: False while uncalibrated; otherwise energy above  *)
(* the threshold AND snr above SNR_THRESHOLD, where                        *)
(*   snr = 10*log10(signal_energy / noise_floor) > 10                      *)
(* is signal_energy > 10 * noise_floor (noise_floor >= NOISE_FLOOR > 0).   *)
(***************************************************************************)
SnrAbove(signal_energy, noise_floor) ==
    IF noise_floor > 0 THEN signal_energy > SNR_THRESHOLD * noise_floor
                       ELSE 0 > SNR_THRESHOLD

\* is_speech without the test of line 172, a missing value read as 0
is_speech_Unguarded(signal_energy) ==
    LET th == IF energy_threshold = NoNumber THEN 0 ELSE energy_threshold[1]
        se == IF silence_energy = NoNumber THEN 0 ELSE silence_energy[1]
    IN  /\ signal_energy > th * ENERGY_SCALE
        /\ SnrAbove(signal_energy, Max(se, NOISE_FLOOR))

is_speech(signal_energy) ==
    IF energy_threshold = NoNumber THEN FALSE
    \* every comparison with nan is False
    ELSE IF energy_threshold = NaN THEN FALSE
    ELSE /\ signal_energy > energy_threshold[1] * ENERGY_SCALE
         /\ SnrAbove(signal_energy, Max(silence_energy[1], NOISE_FLOOR))

(***************************************************************************)
(* PyRecorder.start_stream: opens only when there is no active stream.     *)
(***************************************************************************)
NeedsOpen == stream = None \/ handle # "active"

(***************************************************************************)
(* PyRecorder.stop_stream.  how: "ok", "stop_raises" (is_active() or       *)
(* stop_stream() raised: close() is skipped), "close_raises_open",         *)
(* "close_raises_closed" (close() raised, handle left open / released).    *)
(* The reference is dropped in every case (finally: self.stream = None).   *)
(***************************************************************************)
StopOutcomes == {"ok", "stop_raises", "close_raises_open", "close_raises_closed"}

stop_stream(how) ==
    IF stream = None
    THEN UNCHANGED <<stream, handle, leaked, close_fault>>
    ELSE /\ stream' = None
         /\ handle' = IF how \in {"stop_raises", "close_raises_open"}
                      THEN handle ELSE "closed"
         /\ leaked' = leaked
         /\ close_fault' = (close_fault \/ how # "ok")

(***************************************************************************)
(* PyRecorder.calibrate_energy_threshold: the median of the per-frame      *)
(* energies, a multiplier tiered by it (2.0 / 2.5 / 3.0, held in tenths),  *)
(* or the fixed defaults when anything raises.                             *)
(***************************************************************************)
CalibMedians == {200}

\* a variant of multiplier10 without tiers
multiplier10_Flat(m) == 20

multiplier10(m) == IF m < 1000 THEN 20 ELSE IF m < 10000 THEN 25 ELSE 30

calibrate_energy_threshold(ok, m) ==
    IF ok
    THEN /\ silence_energy' = <<m>>
         /\ energy_threshold' = <<(m * multiplier10(m)) \div 10>>
    ELSE /\ silence_energy' = <<default_silence_energy>>
         /\ energy_threshold' = <<default_energy_threshold>>

(***************************************************************************)
(* record_question (recorder.py:199-298), one action per step between      *)
(* suspension points.  The chunk loop has no await: it runs read by read.  *)
(* Each action takes the set of outcomes the device may produce.           *)
(***************************************************************************)
AwaitPcs == {"idle", "retry_sleep", "beep_play", "restart"}

Sat(n, cap) == IF n >= cap THEN cap ELSE n + 1

\* the caller (process_conversation) enters record_question
RqEnter ==
    /\ rqPc = "idle"
    /\ rqPc' = "open"
    /\ attempt' = 0
    /\ UNCHANGED <<exit_event, devVars, calibVars, loopVars,
                   device_error_count, rqResult, open_calls, open_ok, reads_after_exit>>

\* the wake listener recalibrates between two recordings
RqCalibrate ==
    /\ rqPc = "idle"
    /\ \E ok \in BOOLEAN, m \in CalibMedians : calibrate_energy_threshold(ok, m)
    /\ UNCHANGED <<exit_event, devVars, loopVars, device_error_count, rqPc,
                   attempt, rqResult, open_calls, open_ok, reads_after_exit>>

\* lines 203-211: one pass of "for attempt in range(max_retries)"
RqOpenIn(OpenEnv) ==
    /\ rqPc = "open"
    /\ \E ok \in OpenEnv :
         IF ~NeedsOpen
         THEN /\ rqPc' = "read"
              /\ UNCHANGED <<stream, handle, leaked, rqResult, open_calls,
                             open_ok>>
         ELSE /\ open_calls' = open_calls + 1
              /\ open_ok' = ok
              /\ IF ok
                 THEN /\ stream' = "stream"
                      /\ handle' = "active"
                      /\ leaked' = (leaked \/ handle # "closed")
                      /\ rqPc' = "read"
                      /\ rqResult' = rqResult
                 ELSE /\ UNCHANGED <<stream, handle, leaked>>
                      /\ IF attempt = max_retries - 1
                         THEN rqPc' = "finally" /\ rqResult' = "None"
                         ELSE rqPc' = "retry_sleep" /\ rqResult' = rqResult
    /\ UNCHANGED <<exit_event, close_fault, calibVars, loopVars,
                   device_error_count, attempt, reads_after_exit>>

\* line 211: await asyncio.sleep(1); a cancellation is delivered here
RqRetrySleepIn(CancelEnv) ==
    /\ rqPc = "retry_sleep"
    /\ \E cancelled \in CancelEnv :
         IF cancelled
         THEN rqPc' = "finally" /\ rqResult' = "cancelled" /\ attempt' = attempt
         ELSE rqPc' = "open" /\ rqResult' = rqResult /\ attempt' = attempt + 1
    /\ UNCHANGED <<exit_event, devVars, calibVars, loopVars,
                   device_error_count, open_calls, open_ok, reads_after_exit>>

(***************************************************************************)
(* lines 222-259: one iteration of "while True".  The environment decides  *)
(* what stream.read does: it returns a chunk of some energy, raises        *)
(* OSError, or raises something else.                                      *)
(***************************************************************************)
\* AfterChunk without the absolute maximum duration (line 245 dropped)
AfterChunk_NoMaxDuration(speaking, silent, total) ==
    IF speaking /\ silent > max_silent_chunks THEN "break"
    ELSE IF ~speaking /\ total > no_speech_window * CHUNKS_PER_SECOND
         THEN "no_speech"
    ELSE "continue"

\* AfterChunk without the no-speech window (line 240 dropped)
AfterChunk_NoWindow(speaking, silent, total) ==
    IF speaking /\ silent > max_silent_chunks THEN "break"
    ELSE IF total > max_duration * CHUNKS_PER_SECOND THEN "break"
    ELSE "continue"

\* the checks of lines 236-247 on the updated counters
AfterChunk(speaking, silent, total) ==
    IF speaking /\ silent > max_silent_chunks THEN "break"
    ELSE IF ~speaking /\ total > no_speech_window * CHUNKS_PER_SECOND
         THEN "no_speech"
    ELSE IF total > max_duration * CHUNKS_PER_SECOND THEN "break"
    ELSE "continue"

\* lines 261-279: what follows the loop
AfterLoop(n) == IF n > 0 THEN "beep" ELSE "finally"

ReadData(e, StopEnv) ==
    LET sp       == is_speech(e)
        speaking == is_speaking \/ sp
        silent   == IF sp THEN 0 ELSE silent_chunks + 1
        total    == total_chunks + 1
        verdict  == AfterChunk(speaking, silent, total)
    IN  /\ frames' = frames + 1
        /\ total_chunks' = total
        /\ is_speaking' = speaking
        /\ silent_chunks' = silent
        /\ all_speech' = (all_speech /\ sp)
        /\ UNCHANGED device_error_count
        /\ CASE verdict = "break" ->
                  /\ rqPc' = AfterLoop(frames + 1)
                  /\ rqResult' = IF frames + 1 > 0 THEN rqResult ELSE "None"
                  /\ UNCHANGED devVars
             [] verdict = "no_speech" ->
                  /\ \E how \in StopEnv : stop_stream(how)
                  /\ rqPc' = "finally"
                  /\ rqResult' = "None"
             [] verdict = "continue" ->
                  /\ rqPc' = "read"
                  /\ rqResult' = rqResult
                  /\ UNCHANGED devVars

\* a variant of TooManyErrors that fires at the limit only
TooManyErrors_AtLimitOnly(count) == count = max_device_errors

\* line 252: if self.device_error_count >= self.max_device_errors
TooManyErrors(count) == count >= max_device_errors

\* lines 249-256: except (OSError, IOError)
ReadOSError(StopEnv) ==
    /\ device_error_count < MaxErrCount
    /\ device_error_count' = device_error_count + 1
    /\ UNCHANGED loopVars
    /\ IF TooManyErrors(device_error_count + 1)
       THEN /\ \E how \in StopEnv : stop_stream(how)
            /\ rqPc' = "finally"
            /\ rqResult' = "None"
       ELSE /\ rqPc' = "read"
            /\ rqResult' = rqResult
            /\ UNCHANGED devVars

\* lines 257-259: except Exception
ReadError ==
    /\ rqPc' = "finally"
    /\ rqResult' = "None"
    /\ UNCHANGED <<loopVars, device_error_count, devVars>>

\* every read, failed or not, is one more read issued
ReadIssued ==
    /\ rqPc = "read"
    /\ reads_after_exit' = IF exit_event THEN Sat(reads_after_exit, ReadsCap)
                                         ELSE reads_after_exit
    /\ UNCHANGED <<exit_event, calibVars, attempt, open_calls, open_ok>>

RqReadDataIn(StopEnv) ==
    ReadIssued /\ \E e \in ChunkEnergies : ReadData(e, StopEnv)

RqReadOSErrorIn(StopEnv) == ReadIssued /\ ReadOSError(StopEnv)

RqReadError == ReadIssued /\ ReadError

(***************************************************************************)
(* lines 261-277 and _play_beep_with_retry (300-310): pause the capture    *)
(* stream, play the beep, resume the stream; the utterance is returned     *)
(* whatever the beep does.                                                 *)
(***************************************************************************)
\* line 303-304: "if self.stream and self.stream.is_active(): stop_stream()"
RqBeepIn(RaiseEnv) ==
    /\ rqPc = "beep"
    /\ \E raises \in RaiseEnv :
         IF stream # None /\ handle = "active"
         THEN IF raises
              THEN \* except: return False; the beep is not played
                   /\ rqPc' = "restart"
                   /\ close_fault' = TRUE
                   /\ handle' = handle
              ELSE /\ rqPc' = "beep_play"
                   /\ handle' = "stopped"
                   /\ close_fault' = close_fault
         ELSE /\ rqPc' = "beep_play"
              /\ UNCHANGED <<handle, close_fault>>
    /\ UNCHANGED <<exit_event, stream, leaked, calibVars, loopVars,
                   device_error_count, attempt, rqResult, open_calls, open_ok,
                   reads_after_exit>>

\* line 306: await audio_player.play_audio(self.beep_file)
RqBeepPlayIn(CancelEnv) ==
    /\ rqPc = "beep_play"
    /\ rqPc' = "restart"
    /\ \E cancelled \in CancelEnv :
         rqResult' = IF cancelled THEN "cancelled" ELSE rqResult
    /\ UNCHANGED <<exit_event, devVars, calibVars, loopVars,
                   device_error_count, attempt, open_calls, open_ok, reads_after_exit>>

\* lines 271-277: finally: await sleep(0.2); if self.stream: start_stream()
RqRestartIn(RaiseEnv, CancelEnv) ==
    /\ rqPc = "restart"
    /\ rqPc' = "finally"
    /\ \E cancelled \in CancelEnv, raises \in RaiseEnv :
         IF cancelled
         THEN rqResult' = "cancelled" /\ handle' = handle
         ELSE /\ rqResult' = IF rqResult = "pending" THEN "frames" ELSE rqResult
              /\ handle' = IF stream # None /\ ~raises THEN "active" ELSE handle
    /\ UNCHANGED <<exit_event, stream, leaked, close_fault, calibVars,
                   loopVars, device_error_count, attempt, open_calls, open_ok,
                   reads_after_exit>>

\* lines 287-298: finally: self.stop_stream()
RqFinallyIn(StopEnv) ==
    /\ rqPc = "finally"
    /\ rqPc' = "done"
    /\ \E how \in StopEnv : stop_stream(how)
    /\ UNCHANGED <<exit_event, calibVars, loopVars, device_error_count,
                   attempt, rqResult, open_calls, open_ok, reads_after_exit>>

\* the caller takes the result; the locals of the call are gone
RqReturn ==
    /\ rqPc = "done"
    /\ rqPc' = "idle"
    /\ attempt' = 0
    /\ frames' = 0 /\ silent_chunks' = 0 /\ is_speaking' = FALSE
    /\ total_chunks' = 0 /\ all_speech' = TRUE
    /\ rqResult' = "pending"
    /\ open_calls' = 0 /\ open_ok' = FALSE /\ reads_after_exit' = 0
    /\ close_fault' = FALSE
    /\ UNCHANGED <<exit_event, stream, handle, leaked, calibVars,
                   device_error_count>>

\* utils.set_exit_event, run by the signal handler when the event loop has
\* control, that is while record_question is suspended or not yet called
RqSetExit ==
    /\ rqPc \in AwaitPcs
    /\ ~exit_event
    /\ exit_event' = TRUE
    /\ UNCHANGED recVars

InitRecorder ==
    /\ exit_event = FALSE
    /\ stream = None /\ handle = "closed" /\ leaked = FALSE
    /\ energy_threshold = NoNumber /\ silence_energy = NoNumber
    /\ device_error_count = 0
    /\ rqPc = "idle" /\ attempt = 0
    /\ frames = 0 /\ silent_chunks = 0 /\ is_speaking = FALSE
    /\ total_chunks = 0
    /\ rqResult = "pending"
    /\ open_calls = 0 /\ open_ok = FALSE /\ reads_after_exit = 0
    /\ all_speech = TRUE
    /\ close_fault = FALSE


(***************************************************************************)
(* lines 222-259 as the event loop sees them: the loop contains no await,  *)
(* so every other coroutine observes it as one step.  It ends with an      *)
(* utterance (possible only once the recorder is calibrated, since         *)
(* is_speech is False before), on the no-speech window, or on an exception *)
(* (the device error budget is followed read by read in SpecQuiet).        *)
(***************************************************************************)
LoopOutcomes == {"utterance", "no_speech", "error"}

RqLoopIn(StopEnv) ==
    /\ rqPc = "read"
    /\ UNCHANGED <<exit_event, calibVars, attempt, open_calls, open_ok>>
    /\ reads_after_exit' = IF exit_event THEN ReadsCap ELSE reads_after_exit
    /\ \E outcome \in LoopOutcomes :
         CASE outcome = "utterance" ->
                /\ \E e \in ChunkEnergies : is_speech(e)
                /\ is_speaking' = TRUE
                /\ frames' = max_silent_chunks + 2
                /\ total_chunks' = max_silent_chunks + 2
                /\ silent_chunks' = max_silent_chunks + 1
                /\ all_speech' = FALSE
                /\ rqPc' = AfterLoop(max_silent_chunks + 2)
                /\ UNCHANGED <<rqResult, device_error_count, devVars>>
           [] outcome = "no_speech" ->
                /\ frames' = no_speech_window * CHUNKS_PER_SECOND + 1
                /\ total_chunks' = no_speech_window * CHUNKS_PER_SECOND + 1
                /\ silent_chunks' = no_speech_window * CHUNKS_PER_SECOND + 1
                /\ all_speech' = FALSE
                /\ \E how \in StopEnv : stop_stream(how)
                /\ rqPc' = "finally"
                /\ rqResult' = "None"
                /\ UNCHANGED <<is_speaking, device_error_count>>
           [] outcome = "error" ->
                /\ rqPc' = "finally"
                /\ rqResult' = "None"
                /\ UNCHANGED <<loopVars, device_error_count, devVars>>

(***************************************************************************)
(*                       SCHEDULING OF THE EVENT LOOP                      *)
(* One coroutine runs at a time and keeps running until it awaits.  A pc   *)
(* names either an await in progress or a point inside a synchronous       *)
(* stretch; other tasks and the signal handler act only while nobody is    *)
(* inside a synchronous stretch.  The run coroutine and the listener task  *)
(* never run side by side: run awaits the listener.                        *)
(***************************************************************************)
\* a variant of is_exit_event_set that never reports the event
is_exit_event_set_never == FALSE

\* utils.is_exit_event_set (utils.py:14-15)
is_exit_event_set == exit_event

WkAwaitPcs == {"trigger_play", "buttons", "check", "response_play", "sleep"}

WakeSync == wkPc \in {"start", "loop", "finally"}

MainSync ==
    \/ corePc \in {"loop_head", "except", "run_finally", "returned"}
    \/ cvPc = "loop_head"
    \/ (cvPc = "recording" /\ rqPc \notin AwaitPcs)
    \/ clPc[0] \in {"begin", "done"}

\* asyncio.run has returned: no coroutine runs any more
Exited == corePc = "exited"

LoopHasControl == ~MainSync /\ ~WakeSync /\ ~Exited

(***************************************************************************)
(*                 WakeWord (wakeword.py, the ASR listener)                *)
(***************************************************************************)
TermOutcomes == {"ok", "raises"}

\* what stopping and closing a capture stream does in Spec: it succeeds,
\* or stop_stream() / close() raises and the handle stays open
DevFaults == {"ok", "stop_raises"}

\* cleanup_recorder (555-571): stop and close the stream, dropping the
\* reference only when both succeeded; then PyAudio.terminate(), which
\* closes the streams the instance still holds and raises when that fails.
cleanup_recorder(how, term) ==
    LET mid == IF audio_stream = None THEN wkHandle
               ELSE IF how \in {"ok", "close_raises_closed"} THEN "closed"
               ELSE wkHandle
    IN  /\ audio_stream' = IF audio_stream # None /\ how = "ok"
                           THEN None ELSE audio_stream
        /\ IF pyaudio_instance # None
           THEN IF term = "ok"
                THEN pyaudio_instance' = None /\ wkHandle' = "closed"
                ELSE pyaudio_instance' = pyaudio_instance /\ wkHandle' = mid
           ELSE pyaudio_instance' = pyaudio_instance /\ wkHandle' = mid

\* a variant of ListenerExcept: without the handler of lines 539-541
ListenerExcept_Uncaught(exc) ==
    IF exc = "KeyboardInterrupt" THEN "OTHER" ELSE "raised"

\* lines 536-541: what the task ends with when KeyboardInterrupt or an
\* Exception reaches the outer try: both handlers return (False, OTHER)
ListenerExcept(exc) == "OTHER"

\* a stream whose handle is gone cannot be stopped without raising
CleanupEnv(how) == (audio_stream # None /\ wkHandle = "closed") => how # "ok"

\* the coroutine returns or raises: its finally block (542-551) runs
\* cleanup_recorder; anything raised inside the block escapes the task
WkFinallyIn(RaiseEnv) ==
    /\ wkPc = "finally"
    /\ wkPc' = "done"
    /\ \E how \in DevFaults, term \in TermOutcomes, raises \in RaiseEnv :
         /\ CleanupEnv(how)
         /\ cleanup_recorder(how, term)
         /\ wkResult' = IF raises /\ wkResult # "cancelled"
                        THEN "raised" ELSE wkResult
         /\ LET returned == wkResult = "TRIGGER" /\ ~raises
            IN  /\ triggers' = IF returned THEN triggers + 1 ELSE triggers
                /\ trigger_tick' = IF returned THEN wkTicks ELSE trigger_tick
    /\ UNCHANGED <<exit_event, recVars, coreVars, refVars, wkCancel,
                   play_trigger, wkTicks, convVars, dispVars, sigVars,
                   wake_spawns, conv_entries, turns, rq_turn, rq_calls,
                   pa_calls, consec_empty, cv_end, reply_sentinel>>
    /\ wk_read_fails' = 0
    /\ UNCHANGED <<playVars, appVars, steps_skipped, run_cleaned>>
    /\ UNCHANGED unitVars
WkFinally == WkFinallyIn(BOOLEAN)

\* nothing but the failures the coroutine handles itself
WkFinallyCaught == WkFinallyIn({FALSE})

\* lines 436-452: first step of the task
WkStart ==
    /\ wkPc = "start"
    /\ \E ok \in BOOLEAN, raises \in BOOLEAN :
         LET opened == audio_stream = None /\ ok
             failed == audio_stream = None /\ ~ok
             h      == IF opened THEN "active" ELSE wkHandle
         IN  IF failed
             THEN \* initialize_pyaudio (41-62) failed: (False, OTHER)
                  /\ pyaudio_instance' = None
                  /\ UNCHANGED <<audio_stream, wkHandle>>
                  /\ wkPc' = "finally"
                  /\ wkResult' = "OTHER"
             ELSE /\ audio_stream' = "stream"
                  /\ pyaudio_instance' = IF opened THEN "pa"
                                         ELSE pyaudio_instance
                  /\ IF ~play_trigger
                     THEN IF raises \/ h = "closed"
                          THEN /\ wkHandle' = h
                               /\ wkPc' = "finally"
                               /\ wkResult' = ListenerExcept("Exception")
                          ELSE \* play_trigger_with_logo starts (player.py:115)
                               /\ wkHandle' = "stopped"
                               /\ wkPc' = "trigger_play"
                               /\ wkResult' = wkResult
                     ELSE /\ wkHandle' = h
                          /\ wkPc' = "loop"
                          /\ wkResult' = wkResult
    /\ UNCHANGED <<exit_event, recVars, coreVars, refVars, wkCancel,
                   play_trigger, wkTicks, convVars, dispVars, sigVars,
                   histVars>>
    \* player.py:115: play_trigger_with_logo sets the flag as it starts
    /\ playback_active' = (playback_active \/ wkPc' = "trigger_play")
    /\ UNCHANGED <<current_stream, player_pa, out_stream, late_io, appVars,
                   steps_skipped, wk_read_fails, run_cleaned>>
    /\ UNCHANGED unitVars

\* lines 454-462: the trigger sound and logo were played
WkTriggerPlay ==
    /\ wkPc = "trigger_play" /\ ~wkCancel
    /\ play_trigger' = TRUE
    /\ dispState' = IF display_active THEN "logo" ELSE dispState
    /\ \E raises \in BOOLEAN :
         IF raises \/ wkHandle = "closed"
         THEN /\ wkPc' = "finally" /\ wkHandle' = wkHandle
              /\ wkResult' = ListenerExcept("Exception")
         ELSE wkPc' = "loop" /\ wkResult' = wkResult /\ wkHandle' = "active"
    /\ UNCHANGED <<exit_event, recVars, coreVars, refVars, wkCancel, wkTicks,
                   audio_stream, pyaudio_instance, convVars, display_active,
                   sigVars, histVars>>
    \* player.py:127-128
    /\ playback_active' = FALSE
    /\ UNCHANGED <<current_stream, player_pa, out_stream, late_io, appVars,
                   steps_skipped, wk_read_fails, run_cleaned>>
    /\ UNCHANGED unitVars

\* lines 464-489: loop test, the blocking reads of one check, and the
\* periodic calibration of the recorder
WkLoop ==
    /\ wkPc = "loop"
    /\ IF is_exit_event_set
       THEN /\ wkPc' = "finally"
            /\ wkResult' = "NoneType"
            /\ UNCHANGED <<calibVars, wk_read_fails>>
       ELSE \E outcome \in {"read", "calibrate", "ioerror", "error"} :
            /\ outcome \in {"read", "calibrate"} => wkHandle = "active"
            /\ wkPc' = CASE outcome = "ioerror" -> "sleep"
                         [] outcome = "error" -> "finally"
                         [] OTHER -> "buttons"
            /\ wkResult' = IF outcome = "error"
                           THEN ListenerExcept("Exception") ELSE wkResult
            /\ IF outcome = "calibrate"
               THEN \E m \in CalibMedians :
                        calibrate_energy_threshold(TRUE, m)
               ELSE UNCHANGED calibVars
            \* lines 531-534: "except IOError" logs, sleeps and goes on
            /\ wk_read_fails' =
                   CASE outcome = "ioerror" -> Sat(wk_read_fails, ReadFailsCap)
                     [] outcome = "error" -> wk_read_fails
                     [] OTHER -> 0
    /\ UNCHANGED <<exit_event, devVars, rqLocals, coreVars, refVars,
                   wkCancel, play_trigger, wkTicks, wkDevVars, convVars,
                   dispVars, sigVars, histVars>>
    /\ UNCHANGED <<playVars, appVars, steps_skipped, run_cleaned>>
    /\ UNCHANGED unitVars

\* check_buttons (185-197) returns None whatever get_buttons reported,
\* so the branch of lines 497-502 (res == 'exit') is never taken
check_buttons(edge) == None

\* lines 492-507: the button check returned; the exit test
WkButtons ==
    /\ wkPc = "buttons" /\ ~wkCancel
    /\ \E edge \in BOOLEAN :
         /\ check_buttons(edge) # "exit"
         /\ exit_edge' = (edge /\ ~is_exit_event_set)
    /\ IF is_exit_event_set
       THEN wkPc' = "finally" /\ wkResult' = ListenerExcept("KeyboardInterrupt")
       ELSE wkPc' = "check" /\ wkResult' = wkResult
    /\ UNCHANGED <<exit_event, recVars, coreVars, refVars, wkCancel,
                   play_trigger, wkTicks, wkDevVars, convVars, dispVars,
                   sigVars, histVars>>
    /\ UNCHANGED <<playVars, appVars, steps_skipped, wk_read_fails,
                   run_cleaned, othersEdgeVars>>

\* lines 510-529: the classifier answered
WkCheck ==
    /\ wkPc = "check" /\ ~wkCancel
    /\ wkTicks' = Sat(wkTicks, TicksCap)
    /\ \E r \in {"match", "nomatch", "error"}, raises \in BOOLEAN :
         CASE r = "match" ->
                IF raises \/ wkHandle = "closed"
                THEN wkPc' = "loop" /\ wkHandle' = wkHandle
                ELSE wkPc' = "response_play" /\ wkHandle' = "stopped"
           [] r = "nomatch" -> wkPc' = "sleep" /\ wkHandle' = wkHandle
           [] r = "error" -> wkPc' = "loop" /\ wkHandle' = wkHandle
    /\ UNCHANGED <<exit_event, recVars, coreVars, refVars, wkResult, wkCancel,
                   play_trigger, audio_stream, pyaudio_instance, convVars,
                   dispVars, sigVars, histVars>>
    /\ exit_edge' = FALSE
    /\ UNCHANGED <<playVars, appVars, steps_skipped, wk_read_fails,
                   run_cleaned, othersEdgeVars>>

\* lines 515-520: the response sound was played: (True, TRIGGER)
WkResponsePlay ==
    /\ wkPc = "response_play" /\ ~wkCancel
    /\ wkPc' = "finally"
    /\ wkResult' = "TRIGGER"
    /\ UNCHANGED <<exit_event, recVars, coreVars, refVars, wkCancel,
                   play_trigger, wkTicks, wkDevVars, convVars, dispVars,
                   sigVars, histVars>>
    /\ UNCHANGED auxVars

\* lines 529 and 533: await asyncio.sleep(0.1)
WkSleep ==
    /\ wkPc = "sleep" /\ ~wkCancel
    /\ wkPc' = "loop"
    /\ UNCHANGED <<exit_event, recVars, coreVars, refVars, wkResult, wkCancel,
                   play_trigger, wkTicks, wkDevVars, convVars, dispVars,
                   sigVars, histVars>>
    /\ UNCHANGED auxVars

\* CancelledError is delivered at the await the task is suspended in; it
\* is no Exception, so only the finally block runs
WkCancelled ==
    /\ wkPc \in WkAwaitPcs /\ wkCancel
    /\ wkPc' = "finally"
    /\ wkResult' = "cancelled"
    /\ UNCHANGED <<exit_event, recVars, coreVars, refVars, wkCancel,
                   play_trigger, wkTicks, wkDevVars, convVars, dispVars,
                   sigVars, histVars>>
    \* the cancellation reaches the task awaited; play_trigger_with_logo
    \* clears the flag in its finally block (player.py:127-128)
    /\ playback_active' = IF wkPc = "trigger_play" THEN FALSE
                          ELSE playback_active
    /\ UNCHANGED <<current_stream, player_pa, out_stream, late_io, appVars,
                   steps_skipped, wk_read_fails, run_cleaned>>
    /\ exit_edge' = FALSE
    /\ UNCHANGED othersEdgeVars

(***************************************************************************)
(*              SpeakerCore.cleanup (core.py:304-364, the second           *)
(*              definition of the name, which is the one in force)         *)
(* Caller 0 is run itself; caller k >= 1 is the task the handler of        *)
(* signal k created.  A pc of "display", "player", "wake", "cancel_wait"   *)
(* is the await the call is suspended in.                                  *)
(***************************************************************************)
Cleaners == 0 .. MaxSignals

MayRun(c) == c = 0 \/ LoopHasControl

\* the await reached after stage `after`, skipping the objects that are None
ClTarget(after) ==
    IF after = "cancel" /\ display # None THEN "display"
    ELSE IF after \in {"cancel", "display"} /\ audio_player # None
         THEN "player"
    ELSE IF wake_word # None THEN "wake"
    ELSE "done"

\* lines 315-364 from the end of stage `after` to the next await: the
\* recorder is stopped synchronously on the way to the wake stage; the
\* finally block clears every reference
ClMove(c, after) ==
    LET t == ClTarget(after)
    IN  /\ clPc' = [clPc EXCEPT ![c] = t]
        /\ audio_player' = IF after = "player" \/ t = "done"
                           THEN None ELSE audio_player
        /\ IF t \in {"wake", "done"} /\ py_recorder # None
           THEN \E how \in DevFaults : stop_stream(how)
           ELSE UNCHANGED devVars
        /\ py_recorder' = IF t \in {"wake", "done"} THEN None ELSE py_recorder
        /\ wake_word' = IF t = "done" THEN None ELSE wake_word
        /\ display' = IF t = "done" THEN None ELSE display

\* lines 307-313: cancel the tasks that are not done and wait for them
ClBegin(c) ==
    /\ clPc[c] = "begin" /\ MayRun(c)
    /\ IF "wake" \in tasks /\ wkPc \notin {"none", "done"}
       THEN /\ wkCancel' = TRUE
            /\ clPc' = [clPc EXCEPT ![c] = "cancel_wait"]
            /\ UNCHANGED <<devVars, refVars>>
       ELSE /\ ClMove(c, "cancel")
            /\ UNCHANGED wkCancel
    /\ UNCHANGED <<exit_event, calibVars, rqLocals, coreVars, wkPc, wkResult,
                   play_trigger, wkTicks, wkDevVars, convVars, dispVars,
                   signals, histVars>>
    /\ UNCHANGED auxVars

\* the cancelled task is done.  When run has already taken the task out of
\* self.tasks (line 81), the for loop over the set raises RuntimeError:
\* the except of line 355 skips every stage and the finally block runs
ClCancelWait(c) ==
    /\ clPc[c] = "cancel_wait" /\ MayRun(c)
    /\ wkPc \in {"none", "done"}
    /\ IF tasks = {}
       THEN /\ clPc' = [clPc EXCEPT ![c] = "done"]
            /\ wake_word' = None /\ audio_player' = None
            /\ py_recorder' = None /\ display' = None
            /\ UNCHANGED devVars
       ELSE ClMove(c, "cancel")
    /\ steps_skipped' =
           (steps_skipped \/
            (tasks = {} /\ (display # None \/ audio_player # None \/
                            py_recorder # None \/ wake_word # None)))
    /\ UNCHANGED <<exit_event, calibVars, rqLocals, coreVars, wakeVars,
                   wkDevVars, convVars, dispVars, signals, histVars>>
    /\ UNCHANGED <<playVars, appVars, wk_read_fails, run_cleaned>>
    /\ UNCHANGED unitVars

\* lines 315-326: send_white_frames and cleanup_display.  The first
\* cleanup_display (display.py:202-236) ends with
\* display_manager.cleanup_server(), which closes the session of the
\* server (ServerManager._cleanup_session)
ClDisplay(c) ==
    /\ clPc[c] = "display" /\ MayRun(c)
    /\ dispState' = IF display_active THEN "white" ELSE dispState
    /\ display_active' = FALSE
    /\ session' = IF display_active THEN "closed" ELSE session
    /\ ClMove(c, "display")
    /\ UNCHANGED <<exit_event, calibVars, rqLocals, coreVars, wakeVars,
                   wkDevVars, convVars, signals, histVars>>
    /\ UNCHANGED <<playVars, pending_exc, exit_code, steps_skipped,
                   wk_read_fails, run_cleaned>>
    /\ UNCHANGED unitVars

\* lines 328-343: audio_player.cleanup() returned
ClPlayer(c) ==
    /\ clPc[c] = "player" /\ MayRun(c)
    /\ ClMove(c, "player")
    \* AudioPlayer.cleanup (player.py:162-178)
    /\ current_stream' = None
    /\ out_stream' = IF current_stream # None THEN "closed" ELSE out_stream
    /\ player_pa' = None
    /\ UNCHANGED <<exit_event, calibVars, rqLocals, coreVars, wakeVars,
                   wkDevVars, convVars, dispVars, signals, histVars>>
    /\ UNCHANGED <<late_io, playback_active, appVars, steps_skipped,
                   wk_read_fails, run_cleaned>>
    /\ UNCHANGED unitVars

\* lines 345-364: wake_word.cleanup_recorder() returned; finally block
ClWake(c) ==
    /\ clPc[c] = "wake" /\ MayRun(c)
    /\ \E how \in DevFaults, term \in TermOutcomes :
         CleanupEnv(how) /\ cleanup_recorder(how, term)
    /\ clPc' = [clPc EXCEPT ![c] = "done"]
    /\ wake_word' = None /\ audio_player' = None
    /\ py_recorder' = None /\ display' = None
    /\ UNCHANGED <<exit_event, recVars, coreVars, wakeVars, convVars,
                   dispVars, signals, histVars>>
    /\ UNCHANGED auxVars

\* handle_signal (core.py:30-33)
Signal ==
    /\ signals < MaxSignals
    /\ LoopHasControl
    \* a signal that arrives during Application.cleanup is left out: core.run
    \* has returned and nothing of the orchestrator is left to cancel
    /\ corePc # "app_cleanup"
    /\ exit_event' = TRUE
    /\ signals' = signals + 1
    /\ clPc' = [clPc EXCEPT ![signals + 1] = "begin"]
    /\ UNCHANGED <<recVars, coreVars, refVars, wakeVars, wkDevVars, convVars,
                   dispVars, histVars>>
    /\ UNCHANGED auxVars

(***************************************************************************)
(*                    SpeakerCore.run (core.py:54-117)                     *)
(***************************************************************************)
\* a variant of AfterWake that treats a trigger like (False, None)
AfterWake_NoConversation(res) ==
    IF res = "OTHER" THEN "cleanup_other" ELSE "sleep1"

\* lines 86-95: what run does with the result of the listener
AfterWake(res) ==
    IF res = "TRIGGER" THEN "conversation"
    ELSE IF res = "OTHER" THEN "cleanup_other"
    ELSE "sleep1"

\* lines 105-109
AfterFault(count) == IF count > 3 THEN "run_finally" ELSE "backoff"

StartCleanup == clPc' = [clPc EXCEPT ![0] = "begin"]

\* the history of a conversation is dropped when it is over
ConvHistoryReset ==
    /\ turns' = 0 /\ rq_turn' = 0 /\ rq_calls' = 0 /\ pa_calls' = 0
    /\ consec_empty' = 0 /\ cv_end' = "none" /\ trigger_tick' = 0

\* lines 59-70: the loop test and the creation of the listener task; with
\* self.wake_word None the attribute access raises into line 97
CoreLoopHead ==
    /\ corePc = "loop_head"
    /\ IF is_exit_event_set
       THEN /\ corePc' = "run_finally"
            /\ UNCHANGED <<tasks, wakeVars, wake_spawns>>
       ELSE IF wake_word = None
       THEN /\ corePc' = "except"
            /\ UNCHANGED <<tasks, wakeVars, wake_spawns>>
       ELSE /\ wake_spawns < MaxWakes
            /\ wake_spawns' = wake_spawns + 1
            /\ tasks' = tasks \cup {"wake"}
            /\ wkPc' = "start" /\ wkResult' = "pending"
            /\ wkCancel' = FALSE /\ wkTicks' = 0
            /\ UNCHANGED play_trigger
            /\ corePc' = "await_wake"
    /\ UNCHANGED <<exit_event, recVars, device_retry_count, cleanup_attempted,
                   refVars, wkDevVars, convVars, dispVars, sigVars, triggers,
                   conv_entries, trigger_tick, turns, rq_turn, rq_calls,
                   pa_calls, consec_empty, cv_end, reply_sentinel>>
    /\ UNCHANGED auxVars

\* lines 72-95: the awaited listener task is done
CoreTakeWake ==
    /\ corePc = "await_wake" /\ wkPc = "done"
    /\ wkPc' = "none" /\ wkResult' = "pending" /\ wkTicks' = 0
    /\ UNCHANGED <<wkCancel, play_trigger>>
    /\ CASE wkResult = "cancelled" ->
              \* CancelledError passes every "except Exception"
              /\ tasks' = tasks \ {"wake"}
              /\ corePc' = "run_finally"
              /\ pending_exc' = TRUE
              /\ UNCHANGED <<device_retry_count, cleanup_attempted, clPc,
                             convVars, conv_entries, reply_sentinel>>
         [] wkResult = "raised" ->
              \* lines 74-81
              /\ IF ~cleanup_attempted
                 THEN /\ cleanup_attempted' = TRUE
                      /\ corePc' = "cleanup_raise"
                      /\ StartCleanup
                      /\ tasks' = tasks
                 ELSE /\ tasks' = tasks \ {"wake"}
                      /\ corePc' = "except"
                      /\ UNCHANGED <<cleanup_attempted, clPc>>
              /\ UNCHANGED <<device_retry_count, convVars, conv_entries,
                             reply_sentinel, pending_exc>>
         [] OTHER ->
              /\ tasks' = tasks \ {"wake"}
              /\ device_retry_count' = 0
              /\ corePc' = AfterWake(wkResult)
              /\ IF AfterWake(wkResult) = "conversation"
                 THEN \* process_conversation, lines 162-165
                      /\ cvPc' = "loop_head"
                      /\ conversation_active' = TRUE
                      /\ silence_count' = 0
                      /\ conv_entries' = conv_entries + 1
                      /\ reply_sentinel' = FALSE
                      /\ UNCHANGED clPc
                 ELSE /\ IF AfterWake(wkResult) = "cleanup_other"
                         THEN StartCleanup ELSE UNCHANGED clPc
                      /\ UNCHANGED <<convVars, conv_entries, reply_sentinel>>
              /\ UNCHANGED <<cleanup_attempted, pending_exc>>
    /\ UNCHANGED <<exit_event, recVars, refVars, wkDevVars, dispVars, signals,
                   wake_spawns, triggers, trigger_tick, turns, rq_turn,
                   rq_calls, pa_calls, consec_empty, cv_end>>
    /\ UNCHANGED <<playVars, session, exit_code, steps_skipped, wk_read_fails,
                   run_cleaned>>
    /\ UNCHANGED unitVars

\* lines 97-109: except Exception
CoreExcept ==
    /\ corePc = "except"
    /\ device_retry_count' = device_retry_count + 1
    /\ IF ~cleanup_attempted
       THEN /\ cleanup_attempted' = TRUE
            /\ corePc' = "cleanup_except"
            /\ StartCleanup
       ELSE /\ corePc' = AfterFault(device_retry_count + 1)
            /\ UNCHANGED <<cleanup_attempted, clPc>>
    /\ UNCHANGED <<exit_event, recVars, tasks, refVars, wakeVars, wkDevVars,
                   convVars, dispVars, signals, histVars>>
    /\ UNCHANGED auxVars

\* the cleanup call made by run returned
CoreAfterCleanup ==
    /\ corePc \in {"cleanup_raise", "cleanup_other", "cleanup_except",
                   "cleanup_final"}
    /\ clPc[0] = "done"
    /\ clPc' = [clPc EXCEPT ![0] = "none"]
    /\ corePc' = CASE corePc = "cleanup_raise" -> "except"
                   [] corePc = "cleanup_other" -> "run_finally"
                   [] corePc = "cleanup_except" ->
                          AfterFault(device_retry_count)
                   [] corePc = "cleanup_final" -> "returned"
    /\ tasks' = IF corePc = "cleanup_raise" THEN tasks \ {"wake"} ELSE tasks
    /\ run_cleaned' = TRUE
    /\ UNCHANGED <<exit_event, recVars, device_retry_count, cleanup_attempted,
                   refVars, wakeVars, wkDevVars, convVars, dispVars, signals,
                   histVars>>
    /\ UNCHANGED <<playVars, appVars, steps_skipped, wk_read_fails>>
    /\ UNCHANGED unitVars

\* lines 95 and 109: await asyncio.sleep(1)
CoreSleep ==
    /\ corePc \in {"sleep1", "backoff"}
    /\ corePc' = "loop_head"
    /\ UNCHANGED <<exit_event, recVars, device_retry_count, cleanup_attempted,
                   tasks, refVars, wakeVars, wkDevVars, convVars, dispVars,
                   sigVars, histVars>>
    /\ UNCHANGED auxVars

\* a variant of NeedsFinalCleanup: the finally block never cleans up
NeedsFinalCleanup_Never(attempted) == FALSE

\* line 116: "if not cleanup_attempted"
NeedsFinalCleanup(attempted) == ~attempted

\* lines 115-117
CoreRunFinally ==
    /\ corePc = "run_finally"
    /\ IF NeedsFinalCleanup(cleanup_attempted)
       THEN corePc' = "cleanup_final" /\ StartCleanup
       ELSE corePc' = "returned" /\ UNCHANGED clPc
    /\ UNCHANGED <<exit_event, recVars, device_retry_count, cleanup_attempted,
                   tasks, refVars, wakeVars, wkDevVars, convVars, dispVars,
                   signals, histVars>>
    /\ UNCHANGED auxVars

(***************************************************************************)
(*               Application.run and main (main.py:86-197)                 *)
(***************************************************************************)
\* the exit status of the process: CancelledError is no Exception, so it
\* passes the handlers of Application.run (154-157), main (185-188) and of
\* the module (193-197) and ends the interpreter with status 1; when
\* SpeakerCore.run returns, asyncio.run returns and the status is 0
ExitCode(cancelled) == IF cancelled THEN 1 ELSE 0

\* main.py:158-159 and 86-112: the finally block of Application.run calls
\* Application.cleanup.  ServerManager has no attribute `session`, so the
\* block of lines 95-102 is skipped; speaker.cleanup() is awaited
AppCleanup ==
    /\ corePc = "returned"
    /\ corePc' = "app_cleanup"
    /\ StartCleanup
    /\ UNCHANGED <<exit_event, recVars, device_retry_count, cleanup_attempted,
                   tasks, refVars, wakeVars, wkDevVars, convVars, dispVars,
                   signals, histVars, auxVars>>

\* main.py:114-134: server_manager.cleanup() closes the session; the
\* process ends
AppExit ==
    /\ corePc = "app_cleanup" /\ clPc[0] = "done"
    /\ corePc' = "exited"
    /\ clPc' = [clPc EXCEPT ![0] = "none"]
    /\ session' = "closed"
    /\ exit_code' = <<ExitCode(pending_exc)>>
    /\ UNCHANGED <<exit_event, recVars, device_retry_count, cleanup_attempted,
                   tasks, refVars, wakeVars, wkDevVars, convVars, dispVars,
                   signals, histVars, playVars, pending_exc, steps_skipped,
                   wk_read_fails, run_cleaned>>
    /\ UNCHANGED unitVars

(***************************************************************************)
(*       ConversationClient.process_audio (conversation.py:193-237)        *)
(* A reply is a sequence of tokens: a word, a blank, or the sentinel       *)
(* '[END_OF_CONVERSATION]'.  NoReply is a completion whose content is None.*)
(***************************************************************************)
END_OF_CONVERSATION == "[END_OF_CONVERSATION]"

Tokens == {"word", " ", END_OF_CONVERSATION}

Replies == UNION {[1 .. n -> Tokens] : n \in 0 .. MaxReplyLen}

NoReply == <<"None">>

\* '[END_OF_CONVERSATION]' in content_response
Contains(reply) == \E i \in 1 .. Len(reply) : reply[i] = END_OF_CONVERSATION

NotSentinel(t) == t # END_OF_CONVERSATION

\* content_response.replace('[END_OF_CONVERSATION]', '')
Replace(reply) == SelectSeq(reply, NotSentinel)

RECURSIVE LStrip(_)
LStrip(text) ==
    IF text # <<>> /\ Head(text) = " " THEN LStrip(Tail(text)) ELSE text

RECURSIVE RStrip(_)
RStrip(text) ==
    IF text # <<>> /\ text[Len(text)] = " "
    THEN RStrip(SubSeq(text, 1, Len(text) - 1)) ELSE text

\* str.strip()
Strip(text) == RStrip(LStrip(text))

\* the value process_audio returns: True ends the conversation
\* speech_to_text reports a failure by returning a message text (lines
\* 131-138), which goes to generate_ai_reply like any transcript;
\* generate_ai_reply answers an OpenAIError with an apology text (67-81);
\* NoReply is every other outcome of it: it raised, or returned None
process_audio(stt_ok, reply, tts_raises) ==
    IF reply = NoReply
    THEN TRUE       \* except Exception (232-235): return True
    ELSE LET conversation_ended == Contains(reply)
             content_response   == Strip(Replace(reply))
         IN  IF content_response # <<>>
             THEN IF tts_raises THEN FALSE ELSE conversation_ended
             ELSE FALSE     \* "No AI response text generated"

(***************************************************************************)
(*             SpeakerCore.process_conversation (core.py:161-225)          *)
(***************************************************************************)
\* line 168, then 171-174 or, when the loop is over, 219-223
CvLoopHead ==
    /\ cvPc = "loop_head"
    /\ IF conversation_active /\ ~is_exit_event_set
       THEN /\ turns < MaxTurns
            /\ turns' = turns + 1
            /\ rq_turn' = 0
            /\ reply_sentinel' = FALSE
            /\ IF display = None
               THEN \* AttributeError twice: lines 177 and 215
                    cvPc' = cvPc /\ conversation_active' = FALSE
               ELSE cvPc' = "display_start" /\ UNCHANGED conversation_active
            /\ UNCHANGED <<corePc, silence_count, rq_calls, pa_calls,
                           consec_empty, cv_end, trigger_tick>>
       ELSE /\ IF display = None
               THEN cvPc' = "none" /\ corePc' = "sleep1" /\ ConvHistoryReset
               ELSE /\ cvPc' = "finally"
                    /\ UNCHANGED <<corePc, turns, rq_turn, rq_calls, pa_calls,
                                   consec_empty, cv_end, trigger_tick>>
            /\ UNCHANGED <<silence_count, conversation_active, reply_sentinel>>
    /\ UNCHANGED <<exit_event, recVars, device_retry_count, cleanup_attempted,
                   tasks, refVars, wakeVars, wkDevVars, dispVars, sigVars,
                   wake_spawns, triggers, conv_entries>>
    /\ svc_failed' = FALSE
    /\ UNCHANGED <<playVars, appVars, steps_skipped, wk_read_fails,
                   run_cleaned, othersTurnVars>>

\* lines 171-180: the listening image is up (or timed out); record_question
\* is called
CvDisplayStart ==
    /\ cvPc = "display_start"
    /\ dispState' = IF display_active THEN "listening" ELSE dispState
    /\ IF py_recorder = None
       THEN /\ cvPc' = "loop_head"
            /\ conversation_active' = FALSE
            /\ UNCHANGED <<exit_event, recVars, rq_turn, rq_calls>>
       ELSE /\ RqEnter
            /\ cvPc' = "recording"
            /\ rq_turn' = rq_turn + 1
            /\ rq_calls' = rq_calls + 1
            /\ UNCHANGED conversation_active
    /\ UNCHANGED <<coreVars, refVars, wakeVars, wkDevVars, silence_count,
                   display_active, sigVars, wake_spawns, triggers,
                   conv_entries, trigger_tick, turns, pa_calls, consec_empty,
                   cv_end, reply_sentinel>>
    /\ UNCHANGED auxVars

InRecording(A) == cvPc = "recording" /\ A /\ UNCHANGED orchVars

CvRqOpen       == InRecording(RqOpenIn(BOOLEAN))
CvRqRetrySleep == InRecording(RqRetrySleepIn({FALSE}))
CvRqLoop       == InRecording(RqLoopIn(DevFaults))
CvRqBeep       == InRecording(RqBeepIn({FALSE}))
CvRqBeepPlay   == InRecording(RqBeepPlayIn({FALSE}))
CvRqRestart    == InRecording(RqRestartIn({FALSE}, {FALSE}))
CvRqFinally    == InRecording(RqFinallyIn(DevFaults))

\* lines 180-199: record_question returned
CvTakeResult ==
    /\ cvPc = "recording" /\ rqPc = "done"
    /\ RqReturn
    /\ IF rqResult # "frames"
       THEN LET abandon == silence_count + 1 >= max_silence
            IN  /\ silence_count' = silence_count + 1
                /\ consec_empty' = consec_empty + 1
                /\ cv_end' = IF abandon THEN "silence" ELSE cv_end
                /\ conversation_active' =
                       IF abandon \/ display = None THEN FALSE
                       ELSE conversation_active
                /\ cvPc' = IF display = None THEN "loop_head"
                           ELSE "stop_silence"
                /\ UNCHANGED pa_calls
       ELSE \E save_ok \in BOOLEAN :
                /\ silence_count' = 0
                /\ consec_empty' = 0
                /\ cv_end' = cv_end
                /\ IF ~save_ok \/ display = None
                   THEN /\ conversation_active' = FALSE
                        /\ cvPc' = "loop_head"
                        /\ UNCHANGED pa_calls
                   ELSE /\ UNCHANGED conversation_active
                        /\ cvPc' = "stop_frames"
                        /\ UNCHANGED pa_calls
    /\ UNCHANGED <<coreVars, refVars, wakeVars, wkDevVars, dispVars, sigVars,
                   wake_spawns, triggers, conv_entries, trigger_tick, turns,
                   rq_turn, rq_calls, reply_sentinel>>
    /\ UNCHANGED auxVars

\* lines 188 and 196-204: stop_listening_display returned; after an
\* utterance process_audio is called.  Speech-to-text and the reply are
\* blocking calls, so the first await of process_audio is inside the
\* playback of the reply or of the error audio (sync_audio_and_gif):
\* play_audio (player.py:48-84) has opened its stream and written a chunk
CvStopDisplay ==
    /\ cvPc \in {"stop_silence", "stop_frames"}
    /\ dispState' = IF display_active THEN "white" ELSE dispState
    /\ cvPc' = IF cvPc = "stop_silence" THEN "loop_head" ELSE "process_audio"
    /\ pa_calls' = IF cvPc = "stop_frames" THEN pa_calls + 1 ELSE pa_calls
    /\ UNCHANGED <<exit_event, recVars, coreVars, refVars, wakeVars,
                   wkDevVars, silence_count, conversation_active,
                   display_active, sigVars, wake_spawns, triggers,
                   conv_entries, trigger_tick, turns, rq_turn, rq_calls,
                   consec_empty, cv_end, reply_sentinel>>
    /\ IF cvPc = "stop_frames" /\ player_pa # None
       THEN current_stream' = "stream" /\ out_stream' = "open"
       ELSE UNCHANGED <<current_stream, out_stream>>
    \* player.py:133: sync_audio_and_gif sets the flag as it starts
    /\ playback_active' = (playback_active \/ cvPc = "stop_frames")
    /\ UNCHANGED <<player_pa, late_io, appVars, steps_skipped, wk_read_fails,
                   run_cleaned>>
    /\ UNCHANGED unitVars

\* lines 203-213: the playback ended; process_audio returned or raised
CvProcessAudioIn(RaiseEnv) ==
    /\ cvPc = "process_audio"
    /\ cvPc' = "loop_head"
    /\ \E stt_ok \in BOOLEAN, reply \in Replies \cup {NoReply},
          tts_raises \in BOOLEAN, raises \in RaiseEnv :
         /\ conversation_active' =
                IF raises \/ process_audio(stt_ok, reply, tts_raises)
                THEN FALSE ELSE conversation_active
         /\ reply_sentinel' = (reply # NoReply /\ Contains(reply))
         /\ svc_failed' = (~stt_ok \/ reply = NoReply \/ tts_raises)
    /\ dispState' = IF display_active THEN "white" ELSE dispState
    /\ UNCHANGED <<exit_event, recVars, coreVars, refVars, wakeVars,
                   wkDevVars, silence_count, display_active, sigVars,
                   wake_spawns, triggers, conv_entries, trigger_tick, turns,
                   rq_turn, rq_calls, pa_calls, consec_empty, cv_end>>
    \* player.py:70-94: the rest of the playback.  A further chunk is
    \* written to the stream play_audio holds, whoever closed it meanwhile
    /\ \E more_data \in BOOLEAN :
         late_io' = (late_io \/ (more_data /\ out_stream = "closed"))
    /\ out_stream' = None
    /\ current_stream' = IF out_stream = "open" THEN None ELSE current_stream
    \* player.py:146-147
    /\ playback_active' = FALSE
    /\ UNCHANGED <<player_pa, appVars, steps_skipped, wk_read_fails,
                   run_cleaned>>
    /\ UNCHANGED othersTurnVars
CvProcessAudio == CvProcessAudioIn(BOOLEAN)

\* process_audio handles every failure itself
CvProcessAudioCaught == CvProcessAudioIn({FALSE})

\* lines 219-225: stop_listening_display, sleep, fade_in_logo (which
\* raises AttributeError when self.display is None by then)
CvFinally ==
    /\ cvPc = "finally"
    /\ cvPc' = "none"
    /\ corePc' = "sleep1"
    /\ dispState' = IF ~display_active THEN dispState
                    ELSE IF display = None THEN "white" ELSE "logo"
    /\ UNCHANGED display_active
    /\ ConvHistoryReset
    /\ UNCHANGED <<exit_event, recVars, device_retry_count, cleanup_attempted,
                   tasks, refVars, wakeVars, wkDevVars, silence_count,
                   conversation_active, sigVars, wake_spawns, triggers,
                   conv_entries, reply_sentinel>>
    /\ UNCHANGED auxVars

(***************************************************************************)
(*                              SPECIFICATIONS                             *)
(***************************************************************************)
\* SpeakerCore.__init__: WakeWord.__init__ opens the listener's stream,
\* or fails to and leaves audio_stream None
InitCore(wake_ok) ==
    /\ corePc = "loop_head" /\ device_retry_count = 0
    /\ cleanup_attempted = FALSE /\ tasks = {}
    /\ wake_word = "obj" /\ py_recorder = "obj"
    /\ audio_player = "obj" /\ display = "obj"
    /\ wkPc = "none" /\ wkResult = "pending" /\ wkCancel = FALSE
    /\ play_trigger = FALSE /\ wkTicks = 0
    /\ audio_stream = IF wake_ok THEN "stream" ELSE None
    /\ wkHandle = IF wake_ok THEN "active" ELSE "closed"
    /\ pyaudio_instance = IF wake_ok THEN "pa" ELSE None
    /\ cvPc = "none" /\ silence_count = 0 /\ conversation_active = FALSE
    /\ dispState = "white" /\ display_active = TRUE
    /\ signals = 0 /\ clPc = [c \in Cleaners |-> "none"]
    /\ wake_spawns = 0 /\ triggers = 0 /\ conv_entries = 0
    /\ trigger_tick = 0 /\ turns = 0 /\ rq_turn = 0 /\ rq_calls = 0
    /\ pa_calls = 0 /\ consec_empty = 0 /\ cv_end = "none"
    /\ reply_sentinel = FALSE
    /\ current_stream = None /\ player_pa = "pa" /\ out_stream = None
    /\ late_io = FALSE /\ playback_active = FALSE
    /\ session = "open" /\ pending_exc = FALSE /\ exit_code = NoNumber
    /\ steps_skipped = FALSE /\ wk_read_fails = 0 /\ run_cleaned = FALSE
    /\ close_calls = [d \in Devices |-> 0]
    /\ term_calls = [d \in Devices |-> 0]
    /\ closes_done = [d \in Devices |-> 0]
    /\ plPc = "idle"
    /\ plEnd = "none"
    /\ data_left = 0
    /\ chunks_written = 0
    /\ plCancel = FALSE
    /\ audio_available = TRUE
    /\ resume_tries = 0
    /\ picoPc = "loop_head"
    /\ retry_count = 0
    /\ porcupine = None
    /\ pvAudio = None
    /\ pvStream = None
    /\ init_calls = 0
    /\ appPc = [c \in AppCallers |-> "idle"]
    /\ appLock = "free"
    /\ is_shutdown = FALSE
    /\ app_bodies = 0
    /\ dcPc = [c \in DispCallers |-> "idle"]
    /\ dispLock = "free"
    /\ is_cleaning = FALSE
    /\ dm_set = TRUE
    /\ dm_active = TRUE
    /\ disp_bodies = 0
    /\ server_releases = 0
    /\ svc_failed = FALSE
    /\ btn_data = AllReleased
    /\ active_buttons = AllReleased
    /\ poll_state = "none"
    /\ raw_last = AllReleased
    /\ raw_before = AllReleased
    /\ exit_edge = FALSE
    /\ cal_frames = <<>>
    /\ cal_done = FALSE
    /\ cal_failed = FALSE
    /\ prPc = [c \in Callers |-> "idle"]
    /\ prOp = [c \in Callers |-> "none"]
    /\ prResult = [c \in Callers |-> "none"]
    /\ pvLock = None
    /\ lfPc = [p \in Procs |-> "idle"]
    /\ lfAlive = [p \in Procs |-> TRUE]
    /\ lockFile = Absent
    /\ foreign_removed = FALSE
    /\ conversation_history = <<>>
    /\ gaPc = "idle"
    /\ gaAttempt = 0
    /\ gaResult = "none"
    /\ user_appends = 0
    /\ is_recording = FALSE
    /\ audio_queue = <<>>
    /\ overflow_count = 0
    /\ cbPc = "idle"
    /\ to_discard = 0
    /\ next_frame = 1
    /\ delivered = <<>>
    /\ dropped = {}
    /\ discarded = {}
    /\ measured = 0
    /\ discarded_now = 0
    /\ ran_empty = FALSE

Init == InitRecorder /\ \E wake_ok \in BOOLEAN : InitCore(wake_ok)

Next ==
    \/ CoreLoopHead
    \/ CoreTakeWake
    \/ CoreExcept
    \/ CoreAfterCleanup
    \/ CoreSleep
    \/ CoreRunFinally
    \/ AppCleanup
    \/ AppExit
    \/ WkStart
    \/ WkTriggerPlay
    \/ WkLoop
    \/ WkButtons
    \/ WkCheck
    \/ WkResponsePlay
    \/ WkSleep
    \/ WkCancelled
    \/ WkFinally
    \/ CvLoopHead
    \/ CvDisplayStart
    \/ CvRqOpen
    \/ CvRqRetrySleep
    \/ CvRqLoop
    \/ CvRqBeep
    \/ CvRqBeepPlay
    \/ CvRqRestart
    \/ CvRqFinally
    \/ CvTakeResult
    \/ CvStopDisplay
    \/ CvProcessAudio
    \/ CvFinally
    \/ Signal
    \/ \E c \in Cleaners : ClBegin(c)
    \/ \E c \in Cleaners : ClCancelWait(c)
    \/ \E c \in Cleaners : ClDisplay(c)
    \/ \E c \in Cleaners : ClPlayer(c)
    \/ \E c \in Cleaners : ClWake(c)

Spec == Init /\ [][Next]_vars

\* every awaited call returns and every device read ends
SpecFair == Spec /\ WF_vars(Next)

\* ---- SpecCaught: nothing raises but what the components handle
\* themselves, so the handler of core.py:97-109 is never entered
NextCaught ==
    \/ CoreLoopHead
    \/ CoreTakeWake
    \/ CoreAfterCleanup
    \/ CoreSleep
    \/ CoreRunFinally
    \/ AppCleanup
    \/ AppExit
    \/ WkStart
    \/ WkTriggerPlay
    \/ WkLoop
    \/ WkButtons
    \/ WkCheck
    \/ WkResponsePlay
    \/ WkSleep
    \/ WkCancelled
    \/ WkFinallyCaught
    \/ CvLoopHead
    \/ CvDisplayStart
    \/ CvRqOpen
    \/ CvRqRetrySleep
    \/ CvRqLoop
    \/ CvRqBeep
    \/ CvRqBeepPlay
    \/ CvRqRestart
    \/ CvRqFinally
    \/ CvTakeResult
    \/ CvStopDisplay
    \/ CvProcessAudioCaught
    \/ CvFinally
    \/ Signal
    \/ \E c \in Cleaners : ClBegin(c)
    \/ \E c \in Cleaners : ClCancelWait(c)
    \/ \E c \in Cleaners : ClDisplay(c)
    \/ \E c \in Cleaners : ClPlayer(c)
    \/ \E c \in Cleaners : ClWake(c)

SpecCaught == Init /\ [][NextCaught]_vars

\* ---- the recorder on its own: the orchestrator does not move
InitRec == InitRecorder /\ InitCore(FALSE)

Standalone(A) == A /\ UNCHANGED orchVars

RecEnter   == Standalone(RqEnter)
RecReturn  == Standalone(RqReturn)
RecSetExit == Standalone(RqSetExit)

\* ---- SpecRec: the device opens, stops and closes without error
RecCalibrate == Standalone(RqCalibrate)
RecOpen      == Standalone(RqOpenIn({TRUE}))
RecRead      == Standalone(RqReadDataIn({"ok"}))
RecBeep      == Standalone(RqBeepIn({FALSE}))
RecBeepPlay  == Standalone(RqBeepPlayIn(BOOLEAN))
RecRestart   == Standalone(RqRestartIn({FALSE}, BOOLEAN))
RecFinally   == Standalone(RqFinallyIn({"ok"}))

NextRec ==
    \/ RecEnter
    \/ RecCalibrate
    \/ RecOpen
    \/ RecRead
    \/ RecBeep
    \/ RecBeepPlay
    \/ RecRestart
    \/ RecFinally
    \/ RecReturn
    \/ RecSetExit

SpecRec == InitRec /\ [][NextRec]_vars

\* ---- SpecQuiet: never calibrated, every device failure
RqOpen        == Standalone(RqOpenIn(BOOLEAN))
RqRetrySleep  == Standalone(RqRetrySleepIn(BOOLEAN))
RqRead        == Standalone(RqReadDataIn(StopOutcomes))
RqReadOSError == Standalone(RqReadOSErrorIn(StopOutcomes))
RqReadFault   == Standalone(RqReadError)
RqFinally     == Standalone(RqFinallyIn(StopOutcomes))

NextQuiet ==
    \/ RecEnter
    \/ RqOpen
    \/ RqRetrySleep
    \/ RqRead
    \/ RqReadOSError
    \/ RqReadFault
    \/ RqFinally
    \/ RecReturn
    \/ RecSetExit

SpecQuiet == InitRec /\ [][NextQuiet]_vars

\* every device read returns and every awaited sleep ends
SpecQuietFair == SpecQuiet /\ WF_vars(NextQuiet)

(***************************************************************************)
(*        The close routines of the three device owners on their own       *)
(* PyRecorder.stop_stream (recorder.py:63-72), WakeWord.cleanup_recorder   *)
(* (wakeword.py:555-571) and AudioPlayer.cleanup (player.py:162-178),      *)
(* called up to CloseCalls times in a row after the device was opened.     *)
(* The environment decides what stop_stream(), close() and terminate() do. *)
(***************************************************************************)
\* stream.close() is reached unless is_active() / stop_stream() raised
CloseIssued(ref, how) == ref # None /\ how # "stop_raises"

\* a stream whose handle is released cannot be closed another time
\* without the call raising
HandleEnv(ref, h, how) ==
    (ref # None /\ h = "closed") => how \in {"stop_raises", "close_raises_closed"}

Opened(d) ==
    /\ close_calls' = [close_calls EXCEPT ![d] = 0]
    /\ closes_done' = [closes_done EXCEPT ![d] = 0]

CloseLogged(d, ref, how) ==
    /\ closes_done[d] < CloseCalls
    /\ closes_done' = [closes_done EXCEPT ![d] = @ + 1]
    /\ close_calls' = [close_calls EXCEPT
                          ![d] = IF CloseIssued(ref, how) THEN @ + 1 ELSE @]

TermLogged(d, inst) ==
    /\ term_calls[d] <= CloseCalls
    /\ term_calls' = [term_calls EXCEPT
                         ![d] = IF inst # None THEN @ + 1 ELSE @]

\* PyRecorder.start_stream (recorder.py:54-61)
UcStartStream ==
    /\ NeedsOpen
    /\ stream' = "stream" /\ handle' = "active"
    /\ leaked' = (leaked \/ handle # "closed")
    /\ Opened("recorder")
    /\ UNCHANGED <<exit_event, close_fault, calibVars, rqLocals, coreVars,
                   refVars, wakeVars, wkDevVars, convVars, dispVars, sigVars,
                   histVars, playVars, appVars, steps_skipped, wk_read_fails,
                   run_cleaned, term_calls, othersCloseVars>>

\* PyRecorder.stop_stream (recorder.py:63-72)
UcStopStream ==
    /\ \E how \in StopOutcomes :
         /\ stop_stream(how)
         /\ CloseLogged("recorder", stream, how)
    /\ UNCHANGED <<exit_event, calibVars, rqLocals, coreVars, refVars,
                   wakeVars, wkDevVars, convVars, dispVars, sigVars,
                   histVars, playVars, appVars, steps_skipped, wk_read_fails,
                   run_cleaned, term_calls, othersCloseVars>>

\* WakeWord.initialize_pyaudio (wakeword.py:41-62), when it succeeds
UcInitializePyaudio ==
    /\ audio_stream = None
    /\ audio_stream' = "stream" /\ wkHandle' = "active"
    /\ pyaudio_instance' = "pa"
    /\ Opened("listener")
    /\ term_calls' = IF pyaudio_instance = None
                     THEN [term_calls EXCEPT !["listener"] = 0]
                     ELSE term_calls
    /\ UNCHANGED <<exit_event, recVars, coreVars, refVars, wakeVars,
                   convVars, dispVars, sigVars, histVars, playVars, appVars,
                   steps_skipped, wk_read_fails, run_cleaned, othersCloseVars>>

\* WakeWord.cleanup_recorder (wakeword.py:555-571)
UcCleanupRecorder ==
    /\ \E how \in StopOutcomes, term \in TermOutcomes :
         /\ HandleEnv(audio_stream, wkHandle, how)
         /\ cleanup_recorder(how, term)
         /\ CloseLogged("listener", audio_stream, how)
         /\ TermLogged("listener", pyaudio_instance)
    /\ UNCHANGED <<exit_event, recVars, coreVars, refVars, wakeVars,
                   convVars, dispVars, sigVars, histVars, playVars, appVars,
                   steps_skipped, wk_read_fails, run_cleaned, othersCloseVars>>

\* AudioPlayer.play_audio opens its output stream (player.py:58-64)
UcPlayerOpen ==
    /\ player_pa # None /\ current_stream = None
    /\ current_stream' = "stream" /\ out_stream' = "open"
    /\ Opened("player")
    /\ UNCHANGED <<exit_event, recVars, coreVars, refVars, wakeVars,
                   wkDevVars, convVars, dispVars, sigVars, histVars,
                   player_pa, late_io, playback_active, appVars,
                   steps_skipped, wk_read_fails, run_cleaned, term_calls, othersCloseVars>>

\* AudioPlayer.cleanup (player.py:162-178): the reference is dropped only
\* when stop_stream() and close() both succeeded, the instance only when
\* terminate() did; terminate() closes the streams of the instance
player_cleanup(how, term) ==
    LET mid == IF current_stream = None THEN out_stream
               ELSE IF how \in {"ok", "close_raises_closed"} THEN "closed"
               ELSE out_stream
    IN  /\ current_stream' = IF current_stream # None /\ how = "ok"
                             THEN None ELSE current_stream
        /\ IF player_pa # None /\ term = "ok"
           THEN /\ player_pa' = None
                /\ out_stream' = IF mid = "open" THEN "closed" ELSE mid
           ELSE player_pa' = player_pa /\ out_stream' = mid

UcPlayerCleanup ==
    /\ \E how \in StopOutcomes, term \in TermOutcomes :
         /\ HandleEnv(current_stream, out_stream, how)
         /\ player_cleanup(how, term)
         /\ CloseLogged("player", current_stream, how)
         /\ TermLogged("player", player_pa)
    /\ UNCHANGED <<exit_event, recVars, coreVars, refVars, wakeVars,
                   wkDevVars, convVars, dispVars, sigVars, histVars,
                   late_io, playback_active, appVars, steps_skipped,
                   wk_read_fails, run_cleaned, othersCloseVars>>

NextClose ==
    \/ UcStartStream
    \/ UcStopStream
    \/ UcInitializePyaudio
    \/ UcCleanupRecorder
    \/ UcPlayerOpen
    \/ UcPlayerCleanup

SpecClose == Init /\ [][NextClose]_vars

(***************************************************************************)
(*                  AudioPlayer.play_audio on its own                      *)
(* One call of play_audio (player.py:48-94) at a time, followed chunk by   *)
(* chunk, next to the routines that clear playback_active or close the     *)
(* stream under it.  The environment decides how long the file is, what    *)
(* open(), write(), stop_stream() and close() do, and whether the task is  *)
(* cancelled while it sleeps between two chunks.  In Spec the flag         *)
(* audio_available is not followed: there a write fails only once cleanup  *)
(* has terminated the player's PyAudio instance, and no stream opens       *)
(* after that anyway.                                                      *)
(***************************************************************************)
PlFrame ==
    UNCHANGED <<exit_event, recVars, coreVars, refVars, wakeVars, wkDevVars,
                convVars, dispVars, sigVars, histVars, appVars,
                steps_skipped, wk_read_fails, run_cleaned, late_io,
                othersPlVars>>

\* lines 92-94: except Exception: audio_available = False; the stream is
\* neither closed nor forgotten
PlFailed ==
    /\ audio_available' = FALSE
    /\ plPc' = "done" /\ plEnd' = "failed"
    /\ UNCHANGED <<current_stream, out_stream, data_left, chunks_written>>

\* play_trigger_with_logo (115) or sync_audio_and_gif (133) is about to
\* start a playback
PlSetActive ==
    /\ plPc = "idle" /\ ~playback_active
    /\ playback_active' = TRUE
    /\ UNCHANGED <<current_stream, player_pa, out_stream, plVars>>
    /\ PlFrame

\* check_music_status (111) or the caller's finally block (128, 147)
PlClearActive ==
    /\ plPc \in {"sleep", "done"} /\ playback_active
    /\ playback_active' = FALSE
    /\ UNCHANGED <<current_stream, player_pa, out_stream, plVars>>
    /\ PlFrame

\* a variant of Unavailable: the flag is not consulted
Unavailable_Never(flag) == FALSE

\* lines 50-52: if not self.audio_available: return
Unavailable(flag) == ~flag

\* lines 50-68: the call starts and runs up to the loop
PlOpen ==
    /\ plPc = "idle"
    /\ IF Unavailable(audio_available)
       THEN /\ plPc' = "done" /\ plEnd' = "unavailable"
            /\ UNCHANGED <<current_stream, out_stream, data_left,
                           chunks_written, audio_available>>
       ELSE \E ok \in BOOLEAN, n \in 0 .. MaxChunks :
              IF ok /\ player_pa # None
              THEN /\ current_stream' = "stream" /\ out_stream' = "open"
                   /\ data_left' = n /\ chunks_written' = 0
                   /\ plPc' = "loop"
                   /\ UNCHANGED <<plEnd, audio_available>>
              ELSE PlFailed
    /\ UNCHANGED <<player_pa, playback_active, plCancel>>
    /\ PlFrame

\* lines 70-90: the loop test; one chunk written, or the stream closed
PlLoop ==
    /\ plPc = "loop"
    /\ \E ok \in BOOLEAN :
         IF ~ok \/ out_stream # "open"
         THEN PlFailed
         ELSE IF data_left > 0 /\ playback_active
              THEN /\ chunks_written' = chunks_written + 1
                   /\ data_left' = data_left - 1
                   /\ plPc' = "sleep"
                   /\ UNCHANGED <<current_stream, out_stream, plEnd,
                                  audio_available>>
              ELSE /\ out_stream' = "closed" /\ current_stream' = None
                   /\ plPc' = "done" /\ plEnd' = "finished"
                   /\ UNCHANGED <<data_left, chunks_written, audio_available>>
    /\ UNCHANGED <<player_pa, playback_active, plCancel>>
    /\ PlFrame

\* line 84: await asyncio.sleep(0.01).  CancelledError is no Exception:
\* the handler of line 92 does not run, and there is no finally block
PlSleep ==
    /\ plPc = "sleep"
    /\ IF plCancel
       THEN plPc' = "done" /\ plEnd' = "cancelled"
       ELSE plPc' = "loop" /\ plEnd' = plEnd
    /\ UNCHANGED <<playVars, data_left, chunks_written, plCancel,
                   audio_available>>
    /\ PlFrame

\* task.cancel() on the task that runs the call (or on one awaiting it)
PlCancelTask ==
    /\ plPc = "sleep" /\ ~plCancel
    /\ plCancel' = TRUE
    /\ UNCHANGED <<playVars, plPc, plEnd, data_left, chunks_written,
                   audio_available>>
    /\ PlFrame

\* AudioPlayer.stop_playback (150-160), called while the task sleeps
PlStopPlayback ==
    /\ plPc = "sleep"
    /\ playback_active' = FALSE
    /\ \E ok \in BOOLEAN :
         IF current_stream # None /\ audio_available
         THEN IF ok /\ out_stream = "open"
              THEN /\ out_stream' = "closed" /\ current_stream' = None
                   /\ audio_available' = audio_available
              ELSE /\ audio_available' = FALSE
                   /\ UNCHANGED <<current_stream, out_stream>>
         ELSE UNCHANGED <<current_stream, out_stream, audio_available>>
    /\ UNCHANGED <<player_pa, plPc, plEnd, data_left, chunks_written,
                   plCancel>>
    /\ PlFrame

\* the caller takes over; the locals of the call are gone
PlReturn ==
    /\ plPc = "done"
    /\ plPc' = "idle" /\ plEnd' = "none" /\ plCancel' = FALSE
    /\ data_left' = 0 /\ chunks_written' = 0
    /\ out_stream' = None
    /\ UNCHANGED <<current_stream, player_pa, playback_active,
                   audio_available>>
    /\ PlFrame

NextPlay ==
    \/ PlSetActive
    \/ PlClearActive
    \/ PlOpen
    \/ PlLoop
    \/ PlSleep
    \/ PlCancelTask
    \/ PlStopPlayback
    \/ PlReturn

SpecPlay == Init /\ [][NextPlay]_vars

(***************************************************************************)
(* SpecCue: the recorder on its own, with the device calls around the      *)
(* confirmation beep failing or not (recorder.py:261-277, 300-310).  The   *)
(* calls of self.stream.start_stream() made to resume the capture after    *)
(* the beep are counted.                                                   *)
(***************************************************************************)
CueFrame ==
    UNCHANGED <<coreVars, refVars, wakeVars, wkDevVars, convVars, dispVars,
                sigVars, histVars, playVars, appVars, steps_skipped,
                wk_read_fails, run_cleaned, othersResVars>>

CueEnter == RqEnter /\ resume_tries' = 0 /\ CueFrame

CueBeep == Standalone(RqBeepIn(BOOLEAN))

\* lines 271-277: unless the sleep is cancelled, start_stream() is called
\* when self.stream is set
CueRestart ==
    /\ \E cancelled \in BOOLEAN :
         /\ RqRestartIn(BOOLEAN, {cancelled})
         /\ resume_tries' = IF ~cancelled /\ stream # None
                            THEN resume_tries + 1 ELSE resume_tries
    /\ CueFrame

NextCue ==
    \/ CueEnter
    \/ RecCalibrate
    \/ RecOpen
    \/ RecRead
    \/ CueBeep
    \/ RecBeepPlay
    \/ CueRestart
    \/ RecFinally
    \/ RecReturn
    \/ RecSetExit

SpecCue == InitRec /\ [][NextCue]_vars

(***************************************************************************)
(*             PicoVoiceTrigger.__init__ (pico.py:31-61) on its own        *)
(* The environment decides whether creating the engine and opening the     *)
(* device succeed.  initialize() reports every failure by returning False  *)
(* (its handler of lines 282-285 catches every Exception); an exception    *)
(* out of the loop body is an input the code also provides for.            *)
(***************************************************************************)
PicoFrame ==
    UNCHANGED <<exit_event, recVars, coreVars, refVars, wakeVars, wkDevVars,
                convVars, dispVars, sigVars, histVars, playVars, appVars,
                steps_skipped, wk_read_fails, run_cleaned, othersPicoVars>>

\* lines 53-57: except Exception: retry_count += 1; sleep; next pass
PicoExcept ==
    /\ retry_count' = retry_count + 1
    /\ picoPc' = "loop_head"

\* lines 282-285 then 51-52: the handler runs cleanup() (181-205) and
\* returns False; __init__ does not break and counts nothing
PicoReturnFalse ==
    /\ porcupine' = None /\ pvAudio' = None /\ pvStream' = None
    /\ picoPc' = "loop_head"
    /\ retry_count' = retry_count

\* lines 45 and 59-61: the loop test, and the test after the loop
PicoLoopHead ==
    /\ picoPc = "loop_head"
    /\ picoPc' = IF retry_count < pico_max_retries THEN "release" ELSE "fatal"
    /\ UNCHANGED <<retry_count, porcupine, pvAudio, pvStream, init_calls>>
    /\ PicoFrame

\* lines 48-49: _force_release_audio (63-94) and the pause
PicoForceRelease ==
    /\ picoPc = "release"
    /\ pvStream' = None /\ pvAudio' = None
    /\ \E raises \in BOOLEAN :
         IF raises THEN PicoExcept
         ELSE picoPc' = "initialize" /\ retry_count' = retry_count
    /\ UNCHANGED <<porcupine, init_calls>>
    /\ PicoFrame

\* lines 257-273: initialize() creates the engine
PicoInitialize ==
    /\ picoPc = "initialize"
    /\ init_calls' = Sat(init_calls, InitCallsCap)
    /\ \E created \in BOOLEAN :
         IF created
         THEN /\ porcupine' = "obj" /\ picoPc' = "audio"
              /\ UNCHANGED <<retry_count, pvAudio, pvStream>>
         ELSE PicoReturnFalse
    /\ PicoFrame

\* lines 276-280: _initialize_audio (96-179) opens the device or not;
\* line 52: break once initialize() returned True
PicoInitAudio ==
    /\ picoPc = "audio"
    /\ \E outcome \in {"opened", "busy", "raises"} :
         CASE outcome = "opened" ->
                /\ pvAudio' = "pa" /\ pvStream' = "stream"
                /\ picoPc' = "ready"
                /\ UNCHANGED <<retry_count, porcupine>>
           [] outcome = "busy" -> PicoReturnFalse
           [] outcome = "raises" ->
                PicoExcept /\ UNCHANGED <<porcupine, pvAudio, pvStream>>
    /\ UNCHANGED init_calls
    /\ PicoFrame

NextPico ==
    \/ PicoLoopHead
    \/ PicoForceRelease
    \/ PicoInitialize
    \/ PicoInitAudio

SpecPico == Init /\ [][NextPico]_vars

(***************************************************************************)
(*     Application.cleanup (main.py:86-134) and DisplayModule's cleanup    *)
(*     (display.py:190-236) under concurrent and nested invocations        *)
(* Application.cleanup is called by the finally block of Application.run   *)
(* and by the task of the signal handler (main.py:159, 169).               *)
(* cleanup_display is called by SpeakerCore.cleanup (core.py:321-324),     *)
(* once per cleanup call in progress, and, nested in _emergency_cleanup,   *)
(* by the error path of a display coroutine (display.py:64, 97, 102, 122). *)
(* Each caller calls once.  The timeouts of the callers' wait_for are left *)
(* out: the steps are the awaits of the bodies.                            *)
(***************************************************************************)
GuardFrame ==
    UNCHANGED <<exit_event, recVars, coreVars, refVars, wakeVars, wkDevVars,
                convVars, dispVars, sigVars, histVars, playVars, appVars,
                steps_skipped, wk_read_fails, run_cleaned, othersGuardVars>>

appSide  == <<appPc, appLock, is_shutdown, app_bodies>>
dispSide == <<dcPc, dispLock, is_cleaning, dm_set, dm_active,
             disp_bodies,
              server_releases>>

\* a variant of AlreadyShutDown: the flag is not consulted
AlreadyShutDown_Unguarded(flag) == FALSE

\* main.py:88-89: if self._is_shutdown: return
AlreadyShutDown(flag) == flag

\* main.py:87: the call starts and asks for the lock
AppCall(c) ==
    /\ appPc[c] = "idle"
    /\ appPc' = [appPc EXCEPT ![c] = "wait_lock"]
    /\ UNCHANGED <<appLock, is_shutdown, app_bodies, dispSide>>
    /\ GuardFrame

\* main.py:87-104: the lock is taken; return at once, or set the flag
\* and start the body, which runs up to its first await
AppEnter(c) ==
    /\ appPc[c] = "wait_lock" /\ appLock = "free"
    /\ IF AlreadyShutDown(is_shutdown)
       THEN /\ appPc' = [appPc EXCEPT ![c] = "done"]
            /\ UNCHANGED <<appLock, is_shutdown, app_bodies>>
       ELSE /\ appLock' = c
            /\ is_shutdown' = TRUE
            /\ app_bodies' = app_bodies + 1
            /\ appPc' = [appPc EXCEPT ![c] = "body"]
    /\ UNCHANGED dispSide
    /\ GuardFrame

\* main.py:104-134: the awaits of the body end; the lock is released
AppLeave(c) ==
    /\ appPc[c] = "body"
    /\ appPc' = [appPc EXCEPT ![c] = "done"]
    /\ appLock' = "free"
    /\ UNCHANGED <<is_shutdown, app_bodies, dispSide>>
    /\ GuardFrame

\* a variant of DisplayGuard: the flag is not consulted
DisplayGuard_NoFlag(cleaning, dm) == dm

\* display.py:204: if not self._is_cleaning and self.display_manager
DisplayGuard(cleaning, dm) == ~cleaning /\ dm

\* core.py:321: SpeakerCore.cleanup calls cleanup_display;
\* display.py:191-194: the error path enters _emergency_cleanup, which
\* sets the flag unless it is set and then sends the white frames
DcCall(c) ==
    /\ dcPc[c] = "idle"
    /\ IF c = "error_path"
       THEN IF is_cleaning
            THEN dcPc' = [dcPc EXCEPT ![c] = "done"]
            ELSE dcPc' = [dcPc EXCEPT ![c] = "em_white"]
       ELSE dcPc' = [dcPc EXCEPT ![c] = "wait_lock"]
    /\ is_cleaning' = (is_cleaning \/ c = "error_path")
    /\ UNCHANGED <<dispLock, dm_set, dm_active, disp_bodies,
                   server_releases, appSide>>
    /\ GuardFrame

\* display.py:194-196: the frames are sent; cleanup_display is called
DcEmergencyWhite(c) ==
    /\ dcPc[c] = "em_white"
    /\ dcPc' = [dcPc EXCEPT ![c] = "wait_lock"]
    /\ UNCHANGED <<dispLock, is_cleaning, dm_set, dm_active, disp_bodies,
                   server_releases, appSide>>
    /\ GuardFrame

\* what follows cleanup_display: the finally block of _emergency_cleanup
\* (199-200) for the error path, the return for the others
AfterDisplayCleanup(c) == IF c = "error_path" THEN "em_finally" ELSE "done"

\* display.py:203-209: the lock is taken; the guard; the body starts
DcEnter(c) ==
    /\ dcPc[c] = "wait_lock" /\ dispLock = "free"
    /\ IF DisplayGuard(is_cleaning, dm_set)
       THEN /\ dispLock' = c
            /\ is_cleaning' = TRUE
            /\ dm_active' = FALSE
            /\ disp_bodies' = disp_bodies + 1
            /\ dcPc' = [dcPc EXCEPT ![c] = "white"]
       ELSE /\ dcPc' = [dcPc EXCEPT ![c] = AfterDisplayCleanup(c)]
            /\ UNCHANGED <<dispLock, is_cleaning, dm_active, disp_bodies>>
    /\ UNCHANGED <<dm_set, server_releases, appSide>>
    /\ GuardFrame

\* display.py:209-230: the display task is cancelled and the white frame
\* sent; the reference is dropped and cleanup_server() is awaited
DcRelease(c) ==
    /\ dcPc[c] = "white"
    /\ dcPc' = [dcPc EXCEPT ![c] = "server"]
    /\ dm_set' = FALSE
    /\ server_releases' = IF dm_set THEN server_releases + 1
                          ELSE server_releases
    /\ UNCHANGED <<dispLock, is_cleaning, dm_active, disp_bodies,
                   appSide>>
    /\ GuardFrame

\* display.py:231-236: cleanup_server() ended; finally; the lock is freed
DcLeave(c) ==
    /\ dcPc[c] = "server"
    /\ dcPc' = [dcPc EXCEPT ![c] = AfterDisplayCleanup(c)]
    /\ is_cleaning' = FALSE
    /\ dispLock' = "free"
    /\ UNCHANGED <<dm_set, dm_active, disp_bodies, server_releases,
                   appSide>>
    /\ GuardFrame

\* display.py:199-200: finally: self._is_cleaning = False
DcEmergencyFinally(c) ==
    /\ dcPc[c] = "em_finally"
    /\ dcPc' = [dcPc EXCEPT ![c] = "done"]
    /\ is_cleaning' = FALSE
    /\ UNCHANGED <<dispLock, dm_set, dm_active, disp_bodies,
                   server_releases, appSide>>
    /\ GuardFrame

AppStep(c) == AppCall(c) \/ AppEnter(c) \/ AppLeave(c)

DcStep(c) ==
    \/ DcCall(c)
    \/ DcEmergencyWhite(c)
    \/ DcEnter(c)
    \/ DcRelease(c)
    \/ DcLeave(c)
    \/ DcEmergencyFinally(c)

NextGuard ==
    \/ \E c \in AppCallers : AppCall(c)
    \/ \E c \in AppCallers : AppEnter(c)
    \/ \E c \in AppCallers : AppLeave(c)
    \/ \E c \in DispCallers : DcCall(c)
    \/ \E c \in DispCallers : DcEmergencyWhite(c)
    \/ \E c \in DispCallers : DcEnter(c)
    \/ \E c \in DispCallers : DcRelease(c)
    \/ \E c \in DispCallers : DcLeave(c)
    \/ \E c \in DispCallers : DcEmergencyFinally(c)

SpecGuard == Init /\ [][NextGuard]_vars

\* the event loop runs every coroutine that is ready
SpecGuardFair ==
    /\ SpecGuard
    /\ \A c \in AppCallers : WF_vars(AppStep(c))
    /\ \A c \in DispCallers : WF_vars(DcStep(c))

(***************************************************************************)
(*   ServerManager.get_buttons (transmission/serverManager.py:86-95 and,   *)
(*   with the same body, hardware/serverManager.py:54-63) on its own       *)
(* The environment decides what the server's Buttons() call returns, or    *)
(* that it raises.                                                         *)
(***************************************************************************)
BtnFrame ==
    UNCHANGED <<exit_event, recVars, coreVars, refVars, wakeVars, wkDevVars,
                convVars, dispVars, sigVars, histVars, playVars, appVars,
                steps_skipped, wk_read_fails, run_cleaned, othersBtnVars>>

RawStates == [1 .. NumButtons -> BOOLEAN]

\* a variant of NewPress that reports the level of the button
NewPress_Level(remembered, v) == v

\* line 90: not self.btn_data[i] and v
NewPress(remembered, v) == ~remembered /\ v

\* lines 89-92: the poll succeeded
BtnPoll ==
    /\ \E buttons \in RawStates :
         /\ active_buttons' =
                [i \in 1 .. NumButtons |-> NewPress(btn_data[i], buttons[i])]
         /\ btn_data' = buttons
         /\ raw_last' = buttons
    /\ raw_before' = raw_last
    /\ poll_state' = "ok"
    /\ BtnFrame

\* lines 93-95: Buttons() raised
BtnPollFails ==
    /\ active_buttons' = [i \in 1 .. NumButtons |-> FALSE]
    /\ poll_state' = "failed"
    /\ UNCHANGED <<btn_data, raw_last, raw_before>>
    /\ BtnFrame

NextButtons ==
    \/ BtnPoll
    \/ BtnPollFails

SpecButtons == Init /\ [][NextButtons]_vars

(***************************************************************************)
(*     PyRecorder.calibrate_energy_threshold (recorder.py:107-137) on      *)
(*     its own, over every short list of frames                            *)
(* A frame is held as the energy of its filtered samples (line 114), a     *)
(* mean of squares of floats and so never negative, or as Malformed when   *)
(* np.frombuffer or the filter raises on it.  Energies are multiples of 4: *)
(* the median of two of them is an even number and its product with a      *)
(* multiplier in tenths is a whole number.                                 *)
(***************************************************************************)
MaxFrames == 3
Malformed == 0 - 1
FrameEnergies == {0, 996, 1000, 9996, 10000}
FrameLists ==
    UNION {[1 .. n -> FrameEnergies \cup {Malformed}] : n \in 0 .. MaxFrames}

\* np.median (line 119): the middle value, or the mean of the two middle
\* values; of no value at all it is nan, with a warning and no exception
Median(fr) ==
    LET s == SortSeq(fr, LAMBDA a, b : a < b)
        n == Len(s)
    IN  IF n % 2 = 1 THEN s[(n + 1) \div 2]
        ELSE (s[n \div 2] + s[n \div 2 + 1]) \div 2

\* lines 110-115 raise on a frame that is no buffer of int16 samples
FrameRaises(fr) == \E i \in 1 .. Len(fr) : fr[i] = Malformed

\* the whole function.  On nan both tests of lines 122-125 are False and
\* the threshold is nan * 3.0 = nan (line 129)
calibrate_frames(fr) ==
    IF FrameRaises(fr) THEN calibrate_energy_threshold(FALSE, 0)
    ELSE IF fr = <<>> THEN silence_energy' = NaN /\ energy_threshold' = NaN
    ELSE calibrate_energy_threshold(TRUE, Median(fr))

\* one call; what it leaves does not depend on what was there before
CalCalibrate ==
    /\ ~cal_done
    /\ \E fr \in FrameLists :
         /\ calibrate_frames(fr)
         /\ cal_frames' = fr
         /\ cal_failed' = FrameRaises(fr)
    /\ cal_done' = TRUE
    /\ UNCHANGED <<exit_event, devVars, loopVars, device_error_count, rqPc,
                   attempt, rqResult, open_calls, open_ok, reads_after_exit>>
    /\ UNCHANGED <<coreVars, refVars, wakeVars, wkDevVars, convVars,
                   dispVars, sigVars, histVars, playVars, appVars,
                   steps_skipped, wk_read_fails, run_cleaned, othersCalVars>>

NextCalib == CalCalibrate

SpecCalib == Init /\ [][NextCalib]_vars

(***************************************************************************)
(*  PicoVoiceTrigger.process (pico.py:287-314), initialize (257-285) and   *)
(*  cleanup (181-205) called by threads                                    *)
(* _lock is a threading.Lock (line 37): acquire() waits until the lock is  *)
(* free whoever holds it, the calling thread included.  process calls      *)
(* initialize inside its own "with self._lock" block (lines 290-294).      *)
(***************************************************************************)
ProcFrame ==
    UNCHANGED <<exit_event, recVars, coreVars, refVars, wakeVars, wkDevVars,
                convVars, dispVars, sigVars, histVars, playVars, appVars,
                steps_skipped, wk_read_fails, run_cleaned,
                othersProcPicoVars>>

\* threading.Lock.acquire can return
LockFree(lock, c) == lock = None

\* line 291: the test of process
NotInitialized == porcupine = None \/ pvStream = None

\* a thread calls process(audio_frame) or initialize(args)
PrCall(c) ==
    /\ prPc[c] = "idle"
    /\ \E op \in {"process", "initialize"} :
         /\ prOp' = [prOp EXCEPT ![c] = op]
         /\ prPc' = [prPc EXCEPT ![c] = IF op = "process" THEN "wait_lock"
                                        ELSE "init_wait_lock"]
    /\ prResult' = [prResult EXCEPT ![c] = "none"]
    /\ UNCHANGED <<pvLock, picoVars>>
    /\ ProcFrame

\* lines 259-285: the body of initialize, entered with the lock; the lock
\* is released when the "with" block is left
InitializeBody(c) ==
    \E ok \in BOOLEAN :
      /\ IF ok THEN porcupine' = "obj" /\ pvAudio' = "pa" /\ pvStream' = "stream"
         ELSE porcupine' = None /\ pvAudio' = None /\ pvStream' = None
      /\ pvLock' = None
      /\ IF prOp[c] = "initialize"
         THEN /\ prPc' = [prPc EXCEPT ![c] = "done"]
              /\ prResult' = [prResult EXCEPT ![c] =
                                 IF ok THEN "True" ELSE "False"]
         \* lines 293-294: back in process
         ELSE IF ok
         THEN /\ prPc' = [prPc EXCEPT ![c] = "classify"]
              /\ prResult' = prResult
         ELSE /\ prPc' = [prPc EXCEPT ![c] = "done"]
              /\ prResult' = [prResult EXCEPT ![c] = "-1"]

\* "with self._lock": line 290 of process, line 260 of initialize
PrAcquire(c) ==
    /\ prPc[c] \in {"wait_lock", "init_wait_lock"}
    /\ LockFree(pvLock, c)
    /\ IF prPc[c] = "init_wait_lock"
       THEN InitializeBody(c) /\ UNCHANGED <<retry_count, picoPc, init_calls>>
       ELSE /\ pvLock' = c
            /\ prPc' = [prPc EXCEPT ![c] = IF NotInitialized
                                           THEN "init_wait_lock"
                                           ELSE "classify"]
            /\ UNCHANGED <<prResult, picoVars>>
    /\ UNCHANGED prOp
    /\ ProcFrame

\* lines 296-310: the frame is classified: a keyword index, or -1 for a
\* short frame or an engine error.  With the engine gone in the meantime
\* (cleanup takes no lock) the call raises inside and line 312 returns -1
PrClassify(c) ==
    /\ prPc[c] = "classify"
    /\ \E r \in {"0", "-1"} :
         prResult' = [prResult EXCEPT ![c] =
                         IF porcupine = None THEN "-1" ELSE r]
    /\ prPc' = [prPc EXCEPT ![c] = "done"]
    /\ pvLock' = IF pvLock = c THEN None ELSE pvLock
    /\ UNCHANGED <<prOp, picoVars>>
    /\ ProcFrame

\* the caller takes the result
PrReturn(c) ==
    /\ prPc[c] = "done"
    /\ prPc' = [prPc EXCEPT ![c] = "idle"]
    /\ UNCHANGED <<prOp, prResult, pvLock, picoVars>>
    /\ ProcFrame

\* cleanup (181-205), which takes no lock: the engine and stream are gone
PrCleanup ==
    /\ porcupine # None
    /\ porcupine' = None /\ pvAudio' = None /\ pvStream' = None
    /\ UNCHANGED <<retry_count, picoPc, init_calls, procVars>>
    /\ ProcFrame

NextProcess ==
    \/ \E c \in Callers : PrCall(c)
    \/ \E c \in Callers : PrAcquire(c)
    \/ \E c \in Callers : PrClassify(c)
    \/ \E c \in Callers : PrReturn(c)
    \/ PrCleanup

SpecProcess == Init /\ [][NextProcess]_vars

\* a thread that can run does run; nothing forces a thread to call
SpecProcessFair ==
    /\ SpecProcess
    /\ \A c \in Callers :
         WF_vars(PrAcquire(c) \/ PrClassify(c) \/ PrReturn(c))

(***************************************************************************)
(*   PicoVoiceTrigger._initialize_audio (pico.py:96-179) run by several    *)
(*   processes that share /tmp/audio_device.lock                           *)
(* Every file system call is one step.  A process may be killed while it   *)
(* is in the device section, by a signal or by the "fuser -k" of another   *)
(* process's _force_release_audio (line 88), and then leaves its file.     *)
(***************************************************************************)
LockFrame ==
    UNCHANGED <<exit_event, recVars, coreVars, refVars, wakeVars, wkDevVars,
                convVars, dispVars, sigVars, histVars, playVars, appVars,
                steps_skipped, wk_read_fails, run_cleaned, othersLockVars>>

\* the file a process created and has not seen the end of its call with
Owns(p) ==
    /\ lockFile # Absent /\ lockFile.creator = p
    /\ lfAlive[p] /\ lfPc[p] \in {"write", "section", "finally"}

\* os.remove(lock_file) by p: whatever file is there goes
Remove(p) ==
    /\ lockFile' = Absent
    /\ foreign_removed' =
           (foreign_removed \/ \E q \in Procs \ {p} : Owns(q))

\* line 99: the call starts with _force_release_audio
LfEnter(p) ==
    /\ lfAlive[p] /\ lfPc[p] = "idle"
    /\ lfPc' = [lfPc EXCEPT ![p] = "create"]
    /\ UNCHANGED <<lfAlive, lockFile, foreign_removed>>
    /\ LockFrame

\* lines 103-106: open(lock_file, 'x'); the file exists, empty, before the
\* pid is written
LfCreate(p) ==
    /\ lfAlive[p] /\ lfPc[p] = "create"
    /\ IF lockFile = Absent
       THEN /\ lockFile' = [creator |-> p, pid |-> NoPid]
            /\ lfPc' = [lfPc EXCEPT ![p] = "write"]
       ELSE /\ lockFile' = lockFile
            /\ lfPc' = [lfPc EXCEPT ![p] = "check"]
    /\ UNCHANGED <<lfAlive, foreign_removed>>
    /\ LockFrame

\* lines 105 and 120: f.write(str(os.getpid())) into the file p opened,
\* which may have been removed from the directory since
LfWrite(p) ==
    /\ lfAlive[p] /\ lfPc[p] = "write"
    /\ lockFile' = IF lockFile # Absent /\ lockFile.creator = p
                   THEN [lockFile EXCEPT !.pid = p] ELSE lockFile
    /\ lfPc' = [lfPc EXCEPT ![p] = "section"]
    /\ UNCHANGED <<lfAlive, foreign_removed>>
    /\ LockFrame

\* lines 107-114: the file is read and the pid probed with os.kill(pid, 0).
\* A file gone, an empty file or a dead pid raise OSError / ValueError
LockHolderAlive ==
    /\ lockFile # Absent /\ lockFile.pid # NoPid /\ lfAlive[lockFile.pid]

LfCheck(p) ==
    /\ lfAlive[p] /\ lfPc[p] = "check"
    /\ lfPc' = [lfPc EXCEPT ![p] = IF LockHolderAlive THEN "finally"
                                   ELSE "remove_stale"]
    /\ UNCHANGED <<lfAlive, lockFile, foreign_removed>>
    /\ LockFrame

\* lines 115-122: the lock is taken for stale: os.remove, then open 'x';
\* whatever raises is passed over (bare except) and the call goes on
LfRemoveStale(p) ==
    /\ lfAlive[p] /\ lfPc[p] = "remove_stale"
    /\ IF lockFile = Absent
       THEN /\ UNCHANGED <<lockFile, foreign_removed>>
            /\ lfPc' = [lfPc EXCEPT ![p] = "section"]
       ELSE /\ Remove(p)
            /\ lfPc' = [lfPc EXCEPT ![p] = "recreate"]
    /\ UNCHANGED lfAlive
    /\ LockFrame

LfRecreate(p) ==
    /\ lfAlive[p] /\ lfPc[p] = "recreate"
    /\ IF lockFile = Absent
       THEN /\ lockFile' = [creator |-> p, pid |-> NoPid]
            /\ lfPc' = [lfPc EXCEPT ![p] = "write"]
       ELSE /\ lockFile' = lockFile
            /\ lfPc' = [lfPc EXCEPT ![p] = "section"]
    /\ UNCHANGED <<lfAlive, foreign_removed>>
    /\ LockFrame

\* lines 124-167: the device is probed and opened, or not
LfSection(p) ==
    /\ lfAlive[p] /\ lfPc[p] = "section"
    /\ lfPc' = [lfPc EXCEPT ![p] = "finally"]
    /\ UNCHANGED <<lfAlive, lockFile, foreign_removed>>
    /\ LockFrame

\* lines 172-177: finally: os.remove(lock_file), on every path, the
\* "in use by another process" return of line 113 included
LfFinally(p) ==
    /\ lfAlive[p] /\ lfPc[p] = "finally"
    /\ IF lockFile = Absent
       THEN UNCHANGED <<lockFile, foreign_removed>>
       ELSE Remove(p)
    /\ lfPc' = [lfPc EXCEPT ![p] = "idle"]
    /\ UNCHANGED lfAlive
    /\ LockFrame

\* the process is killed in the device section; its file stays
LfKilled(p) ==
    /\ lfAlive[p] /\ lfPc[p] = "section"
    /\ lfAlive' = [lfAlive EXCEPT ![p] = FALSE]
    /\ UNCHANGED <<lfPc, lockFile, foreign_removed>>
    /\ LockFrame

NextLock ==
    \/ \E p \in Procs : LfEnter(p)
    \/ \E p \in Procs : LfCreate(p)
    \/ \E p \in Procs : LfWrite(p)
    \/ \E p \in Procs : LfCheck(p)
    \/ \E p \in Procs : LfRemoveStale(p)
    \/ \E p \in Procs : LfRecreate(p)
    \/ \E p \in Procs : LfSection(p)
    \/ \E p \in Procs : LfFinally(p)
    \/ \E p \in Procs : LfKilled(p)

SpecLock == Init /\ [][NextLock]_vars

(***************************************************************************)
(*  ConversationClient.generate_ai_reply (conversation.py:45-81) on its    *)
(*  own, call after call                                                   *)
(* The history is held as the sequence of the roles of its entries.  The   *)
(* environment decides how the completion request ends.                    *)
(***************************************************************************)
AiFrame ==
    UNCHANGED <<exit_event, recVars, coreVars, refVars, wakeVars, wkDevVars,
                convVars, dispVars, sigVars, histVars, playVars, appVars,
                steps_skipped, wk_read_fails, run_cleaned, othersAiVars>>

ApiOutcomes == {"ok", "insufficient_quota", "rate_limit_exceeded",
                "other_api_error", "raises"}

\* lines 65-67: the system message and the last 10 entries
Trimmed(h) ==
    IF Len(h) > history_limit
    THEN <<h[1]>> \o SubSeq(h, Len(h) - history_keep + 1, Len(h))
    ELSE h

\* lines 48-51: the system prompt if the history is empty, then the user's
\* message, on every pass of the retry loop
WithUserMessage(h) ==
    Append(IF h = <<>> THEN <<"system">> ELSE h, "user")

\* the caller invokes generate_ai_reply(new_message)
GaCall ==
    /\ gaPc = "idle"
    /\ Len(conversation_history) <= MaxHistory
    /\ gaPc' = "attempt"
    /\ gaAttempt' = 0 /\ gaResult' = "none" /\ user_appends' = 0
    /\ UNCHANGED conversation_history
    /\ AiFrame

\* lines 46-81: one pass of "for attempt in range(self.max_retries)"
GaAttempt ==
    /\ gaPc = "attempt"
    /\ user_appends' = user_appends + 1
    /\ \E outcome \in ApiOutcomes :
         LET h == WithUserMessage(conversation_history) IN
         CASE outcome = "ok" ->
                /\ conversation_history' = Trimmed(Append(h, "assistant"))
                /\ gaPc' = "done" /\ gaResult' = "reply"
                /\ UNCHANGED gaAttempt
           [] outcome = "rate_limit_exceeded" /\ gaAttempt < ai_max_retries - 1 ->
                /\ conversation_history' = h
                /\ gaAttempt' = gaAttempt + 1
                /\ UNCHANGED <<gaPc, gaResult>>
           [] outcome = "raises" ->
                \* no OpenAIError: the exception leaves the call
                /\ conversation_history' = h
                /\ gaPc' = "done" /\ gaResult' = "raised"
                /\ UNCHANGED gaAttempt
           [] OTHER ->
                /\ conversation_history' = h
                /\ gaPc' = "done" /\ gaResult' = "apology"
                /\ UNCHANGED gaAttempt
    /\ AiFrame

\* the caller goes on with the result
GaReturn ==
    /\ gaPc = "done"
    /\ gaPc' = "idle"
    /\ UNCHANGED <<conversation_history, gaAttempt, gaResult, user_appends>>
    /\ AiFrame

NextReply == GaCall \/ GaAttempt \/ GaReturn

SpecReply == Init /\ [][NextReply]_vars

(***************************************************************************)
(*  PvRecorder (staticRecorder.py): _audio_callback (50-68), run by the    *)
(*  audio thread, against read() (98-110), run by the caller's thread      *)
(* queue.Queue serializes its own methods; between two of them the other   *)
(* thread may run.  QueueMax stands for maxsize=1000 (line 20).  Frames    *)
(* are numbered in the order of capture.                                   *)
(***************************************************************************)
QueueFrame ==
    UNCHANGED <<exit_event, recVars, coreVars, refVars, wakeVars, wkDevVars,
                convVars, dispVars, sigVars, histVars, playVars, appVars,
                steps_skipped, wk_read_fails, run_cleaned, othersQueueVars>>

\* a variant of HalfOf that empties the queue
HalfOf_All(n) == n

\* line 64: self._audio_queue.qsize() // 2
HalfOf(n) == n \div 2

\* start() (70-91): the stream is open and the callback armed
QStart ==
    /\ ~is_recording
    /\ is_recording' = TRUE
    /\ UNCHANGED <<audio_queue, overflow_count, cbPc, to_discard, next_frame,
                   delivered, dropped, discarded, measured, discarded_now,
                   ran_empty>>
    /\ QueueFrame

\* lines 52-55: a frame arrives; put_nowait stores it or raises Full
CbPut ==
    /\ is_recording /\ cbPc = "idle" /\ next_frame <= MaxCaptured
    /\ next_frame' = next_frame + 1
    /\ IF Len(audio_queue) < QueueMax
       THEN /\ audio_queue' = Append(audio_queue, next_frame)
            /\ UNCHANGED <<cbPc, dropped, measured, discarded_now, ran_empty>>
       ELSE /\ dropped' = dropped \cup {next_frame}
            /\ cbPc' = "full"
            /\ measured' = 0 /\ discarded_now' = 0 /\ ran_empty' = FALSE
            /\ UNCHANGED audio_queue
    /\ UNCHANGED <<is_recording, overflow_count, to_discard, delivered,
                   discarded>>
    /\ QueueFrame

\* lines 56-60: the overflow is counted (and logged)
CbCount ==
    /\ cbPc = "full"
    /\ overflow_count' = overflow_count + 1
    /\ cbPc' = "measure"
    /\ UNCHANGED <<is_recording, audio_queue, to_discard, next_frame,
                   delivered, dropped, discarded, measured, discarded_now,
                   ran_empty>>
    /\ QueueFrame

\* line 64: range(qsize() // 2) is evaluated once
CbMeasure ==
    /\ cbPc = "measure"
    /\ to_discard' = HalfOf(Len(audio_queue))
    /\ measured' = Len(audio_queue)
    /\ cbPc' = "discard"
    /\ UNCHANGED <<is_recording, audio_queue, overflow_count, next_frame,
                   delivered, dropped, discarded, discarded_now, ran_empty>>
    /\ QueueFrame

\* lines 64-68: one pass of the loop: get_nowait takes the oldest frame,
\* or raises Empty, which ends the loop (except Exception: pass)
CbDiscard ==
    /\ cbPc = "discard"
    /\ IF to_discard = 0
       THEN /\ cbPc' = "idle"
            /\ UNCHANGED <<audio_queue, to_discard, discarded, discarded_now,
                           ran_empty>>
       ELSE IF audio_queue = <<>>
       THEN /\ cbPc' = "idle" /\ to_discard' = 0 /\ ran_empty' = TRUE
            /\ UNCHANGED <<audio_queue, discarded, discarded_now>>
       ELSE /\ audio_queue' = Tail(audio_queue)
            /\ discarded' = discarded \cup {Head(audio_queue)}
            /\ discarded_now' = discarded_now + 1
            /\ to_discard' = to_discard - 1
            /\ UNCHANGED <<cbPc, ran_empty>>
    /\ UNCHANGED <<is_recording, overflow_count, next_frame, delivered,
                   dropped, measured>>
    /\ QueueFrame

\* read() (98-110): the oldest frame, or zeros after the timeout of 0.1 s
QRead ==
    /\ is_recording
    /\ IF audio_queue = <<>>
       THEN UNCHANGED <<audio_queue, delivered>>
       ELSE /\ audio_queue' = Tail(audio_queue)
            /\ delivered' = Append(delivered, Head(audio_queue))
    /\ UNCHANGED <<is_recording, overflow_count, cbPc, to_discard, next_frame,
                   dropped, discarded, measured, discarded_now, ran_empty>>
    /\ QueueFrame

NextQueue == QStart \/ CbPut \/ CbCount \/ CbMeasure \/ CbDiscard \/ QRead

SpecQueue == Init /\ [][NextQueue]_vars

(***************************************************************************)
(*                               CLAIMS                                    *)
(***************************************************************************)

\* C1: every Fault/Other outcome of the listener increments the fault
\* counter and is followed by a backoff sleep while fewer than 3 faults are
\* consecutive; the 3rd consecutive fault escalates.  So where run stands
\* after taking (False, OTHER) the counter is at least 1, and run never
\* sleeps in the backoff with 3 or more faults counted.
C1_FaultCounting ==
    /\ (corePc = "cleanup_other" => device_retry_count >= 1)
    /\ (corePc = "backoff" => device_retry_count < 3)

\* C2: an escalation of the fault counter leads to a reinitialization and
\* back to waiting for the wake word, so run never ends (finally block,
\* return) in the state where the counter has escalated.
C2_EscalationReinitializes ==
    device_retry_count > 3 => corePc \notin {"run_finally", "returned"}

\* C3: the conversation is abandoned for silence exactly when
\* record_question returned an empty result 2 times in a row: silence_count
\* is the number of empty results in a row (a non-empty one resets it), the
\* abandonment stops the loop, and when the first two results were empty
\* process_audio was never called.
C3_SilenceAbandon ==
    /\ (cvPc # "none" => silence_count = consec_empty)
    /\ consec_empty <= 2
    /\ (cv_end = "silence" <=> consec_empty >= 2)
    /\ (cv_end = "silence" =>
            ~conversation_active /\
            cvPc \in {"stop_silence", "loop_head", "finally"})
    /\ (cv_end = "silence" /\ rq_calls = 2 => pa_calls = 0)

C3_Witness ==
    /\ cvPc = "finally" /\ cv_end = "silence"
    /\ rq_calls = 2 /\ pa_calls = 0 /\ consec_empty = 2

\* C4: a reply that contains the sentinel ends the conversation: when the
\* loop test is reached after such a reply the conversation is no longer
\* active (so no further record_question follows), and once the
\* conversation is over a working display shows the idle logo.
C4_SentinelEndsConversation ==
    /\ (cvPc = "loop_head" /\ reply_sentinel => ~conversation_active)
    /\ (cvPc = "none" /\ corePc = "sleep1" /\ reply_sentinel /\
        display_active => dispState = "logo")

\* C5: a listener task that returned (True, TRIGGER) is followed by exactly
\* one process_conversation call before any further listener task exists
\* (none runs during the conversation); every turn calls record_question
\* at most once, and exactly once before that turn's process_audio, so
\* process_audio calls never outnumber record_question calls.
C5_WakeToConversation ==
    /\ conv_entries <= triggers /\ triggers <= conv_entries + 1
    /\ (triggers > conv_entries =>
            corePc = "await_wake" /\ wkPc = "done" /\ wkResult = "TRIGGER")
    /\ (corePc = "conversation" <=> cvPc # "none")
    /\ (cvPc # "none" =>
            wkPc = "none" /\ tasks = {} /\ conv_entries = triggers)
    /\ conv_entries <= wake_spawns
    /\ rq_turn <= 1 /\ rq_calls <= turns /\ pa_calls <= rq_calls
    /\ (cvPc \in {"recording", "stop_silence", "stop_frames",
                  "process_audio"} => rq_turn = 1)
    /\ (cvPc = "process_audio" => pa_calls >= 1)

C5_Witness ==
    /\ trigger_tick = 1 /\ wake_spawns = 1 /\ conv_entries = 1
    /\ cvPc = "process_audio" /\ turns = 1 /\ rq_calls = 1 /\ pa_calls = 1

\* C6: once the exit event is set, record_question stops reading within
\* one chunk: at most one further stream.read is issued.
C6_ExitStopsReading == reads_after_exit <= 1

\* C7: the utterance never exceeds max_duration * CHUNKS_PER_SECOND + 1
\* chunks; an all-speech stream ends exactly there; while speaking the loop
\* goes on only below both limits, and it is left with an utterance only at
\* the first of trailing silence above the threshold and maximum duration;
\* every read adds one chunk, so the loop ends.
C7_Inv ==
    /\ frames = total_chunks
    /\ total_chunks <= 30 * CHUNKS_PER_SECOND + 1
    /\ (rqPc = "read" /\ is_speaking =>
            silent_chunks <= 2 * CHUNKS_PER_SECOND /\
            total_chunks <= 30 * CHUNKS_PER_SECOND)
    /\ (rqPc \in {"beep", "beep_play", "restart", "finally", "done"} /\ is_speaking =>
            \/ (silent_chunks = 2 * CHUNKS_PER_SECOND + 1 /\
                total_chunks <= 30 * CHUNKS_PER_SECOND + 1)
            \/ (silent_chunks <= 2 * CHUNKS_PER_SECOND /\
                total_chunks = 30 * CHUNKS_PER_SECOND + 1))
    /\ (rqPc = "done" /\ all_speech /\ total_chunks > 0 =>
            frames = 30 * CHUNKS_PER_SECOND + 1)
    /\ (rqPc = "done" /\ is_speaking => rqResult \in {"frames", "cancelled"})

C7_MaxDuration ==
    /\ []C7_Inv
    /\ [][rqPc = "read" => total_chunks' = total_chunks + 1]_vars

C7_Witness ==
    /\ rqPc = "done" /\ rqResult = "frames"
    /\ all_speech /\ frames = 30 * CHUNKS_PER_SECOND + 1

\* C8: when no chunk is classified as speech the loop never reads past the
\* no-speech window, the call returns None with the stream it opened
\* closed (unless stopping or closing itself raised), and it always
\* returns.
C8_Inv ==
    /\ ~is_speaking
    /\ (rqPc = "read" => total_chunks <= 5 * CHUNKS_PER_SECOND)
    /\ (rqPc \in {"finally", "done"} /\ open_ok => rqResult = "None")
    /\ (rqPc = "done" => stream = None)
    /\ (rqPc = "done" /\ open_ok /\ ~close_fault => handle = "closed")

C9_OpenRetry ==
    /\ open_calls <= 3
    /\ (open_ok => open_calls = attempt + 1)
    /\ (rqPc = "read" => open_ok /\ stream # None /\ handle = "active")
    /\ (~open_ok => frames = 0 /\ total_chunks = 0)
    /\ (rqPc \in {"finally", "done"} /\ ~open_ok /\ rqResult # "cancelled" =>
            open_calls = 3 /\ rqResult = "None")

C9_Witness ==
    /\ rqPc = "read" /\ open_ok /\ open_calls = 2 /\ total_chunks >= 1

\* C10: at most one capture handle is open on the input device: counting
\* the listener's handle, the recorder's handle and a recorder handle that
\* was dropped without being closed, never more than one; in particular
\* WakeWord.audio_stream and PyRecorder.stream are never open together.
C10_OneCaptureHandle ==
    /\ (IF wkHandle # "closed" THEN 1 ELSE 0)
         + (IF handle # "closed" THEN 1 ELSE 0)
         + (IF leaked THEN 1 ELSE 0) <= 1
    /\ ~(audio_stream # None /\ wkHandle # "closed" /\
          stream # None /\ handle # "closed")

\* C11: while a cue or a reply is being played (startup trigger sound, wake
\* acknowledgement, confirmation beep, the reply or error audio inside
\* process_audio) no capture handle is actively running.
C11_CaptureXorPlayback ==
    (\/ wkPc \in {"trigger_play", "response_play"}
     \/ (cvPc = "recording" /\ rqPc = "beep_play")
     \/ cvPc = "process_audio")
    => (wkHandle # "active" /\ handle # "active")

\* C12: after a shutdown signal every activity in progress is cancelled
\* before cleanup tears the devices down, so no chunk is ever written to an
\* output stream that cleanup has already closed.
C12_NoIoAfterTeardown == ~late_io

\* C13: cleanup releases the session of the hardware server last: whenever
\* the session is closed, the audio devices (the player's PyAudio instance,
\* the recorder's stream, the listener's stream) have been released.
C13_SessionReleasedLast ==
    session = "closed" =>
        (player_pa = None /\ stream = None /\ audio_stream = None)

\* C14: cleanup is total-effort: no cleanup call reaches its finally block
\* having skipped the stages that follow a failed one (display, player,
\* recorder, listener) while their objects were still there.
C14_TotalEffort == ~steps_skipped

C17_ExitCode ==
    corePc = "exited" =>
        /\ (signals >= 1 /\ device_retry_count <= 3 => exit_code = <<0>>)
        /\ (device_retry_count > 3 => exit_code # <<0>>)

\* C18: whenever process_conversation exits (normal end, exception in a
\* turn, shutdown) the idle logo is on the display when control is back in
\* the run loop.
C18_IdleDisplayRestored ==
    [][cvPc # "none" /\ cvPc' = "none" => dispState' = "logo"]_vars

\* C19: no failure inside a component reaches the orchestrator as an
\* exception: the listener task ends with a classification (or cancelled),
\* never by raising; record_question ends with None or the utterance, and
\* with None when no stream could be opened; process_audio yields its
\* termination flag for every outcome of the service calls.
C19_NoRawExceptions ==
    /\ wkResult \in {"pending", "TRIGGER", "OTHER", "NoneType", "cancelled"}
    /\ (rqPc = "done" => rqResult \in {"None", "frames"})
    /\ (rqPc = "done" /\ ~open_ok => rqResult = "None")
    /\ \A stt_ok \in BOOLEAN, reply \in Replies \cup {NoReply},
          tts_raises \in BOOLEAN :
           process_audio(stt_ok, reply, tts_raises) \in BOOLEAN

C19_Witness ==
    /\ wkPc = "done" /\ wkResult = "OTHER" /\ wkTicks >= 1 /\ ~exit_event
    /\ audio_stream = None

\* C20: a listener whose reads keep failing gives up: it never goes on
\* reading after more failed reads in a row than the device error budget
\* (max_device_errors).
C20_ReadFailureBudget == wk_read_fails <= max_device_errors

\* C21: the cues are audible: while the listener plays the acknowledgment
\* cue of a match, and while record_question plays the confirmation beep
\* of a finalized utterance, the player is set to write the chunks of the
\* file (play_audio writes a chunk only while playback_active holds).
C21_CuesPlayed ==
    /\ (wkPc = "response_play" => playback_active)
    /\ (cvPc = "recording" /\ rqPc = "beep_play" => playback_active)

\* C22: closing a device is idempotent and always releases: since the
\* device was opened, no close routine has issued stream.close() on the
\* handle or terminate() on the instance more than once, and once a close
\* routine has returned the handle is released.
C22_CloseIdempotent ==
    /\ \A d \in Devices : close_calls[d] <= 1 /\ term_calls[d] <= 1
    /\ (closes_done["recorder"] >= 1 => handle = "closed")
    /\ (closes_done["listener"] >= 1 => wkHandle = "closed")
    /\ (closes_done["player"] >= 1 => out_stream # "open")

\* C23: however a play_audio call that opened an output stream ends (the
\* flag was cleared, the task was cancelled between two chunks, a device
\* call raised), the stream is closed and current_stream is None when the
\* call is over.
C23_PlaybackLeavesNoStream ==
    plPc = "done" /\ plEnd \in {"finished", "failed", "cancelled"}
        => out_stream # "open" /\ current_stream = None

\* C24: a failed resumption of the capture after the beep is retried:
\* record_question does not go on to its final block with the capture
\* still paused after a single start_stream() call.
C24_ResumeRetried ==
    (rqPc = "finally" /\ resume_tries = 1) => handle = "active"

\* C25: opening the engine's device is bounded: the constructor calls
\* initialize() at most max_retries (3) times, however a failed attempt is
\* reported.
C25_BoundedInitialization == init_calls <= pico_max_retries

\* C26: the cleanup routines are reentrant-safe: however the calls of
\* Application.cleanup and of the display's cleanup interleave or nest,
\* each teardown body is entered at most once, cleanup_server() is issued
\* at most once, and no call waits for a lock for ever.
C26_GuardInv ==
    /\ app_bodies <= 1
    /\ disp_bodies <= 1
    /\ server_releases <= 1

C27_FailureContinues ==
    (cvPc = "loop_head" /\ svc_failed /\ ~reply_sentinel)
        => conversation_active

\* C28: get_buttons is edge-triggered: after a successful poll, element i
\* of the result is true iff raw button i is pressed at that poll and was
\* not pressed at the successful poll before it (all released at first);
\* a failed poll returns five False values; the remembered state is the
\* raw state of the last successful poll, whatever polls failed since.
C28_EdgeTriggered ==
    /\ btn_data = raw_last
    /\ (poll_state = "ok" =>
            \A i \in 1 .. NumButtons :
                active_buttons[i] <=> (raw_last[i] /\ ~raw_before[i]))
    /\ (poll_state = "failed" => active_buttons = AllReleased)
    /\ DOMAIN active_buttons = 1 .. NumButtons

C28_Witness ==
    /\ poll_state = "ok"
    /\ raw_before[1] /\ raw_last[1] /\ ~active_buttons[1]
    /\ ~raw_before[2] /\ raw_last[2] /\ active_buttons[2]

\* C29: a back/exit button edge ends the listening: after a button check
\* whose poll reported such an edge the listener does not go on to the
\* wake-word check; it plays the exit cue and returns Other.
C29_ExitButtonReturnsOther == wkPc = "check" => ~exit_edge

\* C30: as long as calibration has never run (energy_threshold is not
\* set) is_speech answers False for every frame: no chunk energy is
\* classified as speech, every chunk read so far counted as silent, and
\* the recording has not been marked as speaking.
C30_UncalibratedIsSilent ==
    energy_threshold = NoNumber =>
        /\ \A e \in ChunkEnergies : ~is_speech(e)
        /\ ~is_speaking
        /\ silent_chunks = total_chunks

\* two chunks were read and classified before any calibration
C30_Witness ==
    /\ energy_threshold = NoNumber
    /\ rqPc = "read"
    /\ total_chunks = 2 /\ silent_chunks = 2

\* C31: after a calibration that succeeded on at least one frame,
\* silence_energy is the median of the frame energies and energy_threshold
\* is silence_energy times a multiplier chosen by tier (below 1000: 2.0,
\* below 10000: 2.5, otherwise 3.0; compared in tenths); neither value is
\* negative.
C31_ThresholdByTier ==
    (cal_done /\ ~cal_failed /\ cal_frames # <<>>) =>
        /\ IsNumber(silence_energy) /\ IsNumber(energy_threshold)
        /\ silence_energy[1] = Median(cal_frames)
        /\ silence_energy[1] < 1000 =>
               10 * energy_threshold[1] = 20 * silence_energy[1]
        /\ (silence_energy[1] >= 1000 /\ silence_energy[1] < 10000) =>
               10 * energy_threshold[1] = 25 * silence_energy[1]
        /\ silence_energy[1] >= 10000 =>
               10 * energy_threshold[1] = 30 * silence_energy[1]
        /\ silence_energy[1] >= 0 /\ energy_threshold[1] >= 0

\* a calibration whose median is exactly 1000: the middle tier applies
C31_Witness ==
    /\ cal_done /\ ~cal_failed /\ Len(cal_frames) = 2
    /\ silence_energy = <<1000>>
    /\ energy_threshold = <<2500>>

\* C32: calibration never leaves the detector undefined: after every call,
\* whatever the frame list, silence_energy and energy_threshold are numbers,
\* and when the call failed they are the defaults 1000 and 3000.
C32_NeverUndefined ==
    cal_done =>
        /\ IsNumber(silence_energy) /\ IsNumber(energy_threshold)
        /\ cal_failed => /\ silence_energy = <<default_silence_energy>>
                         /\ energy_threshold = <<default_energy_threshold>>

\* C33: process always returns and never blocks indefinitely: every
\* thread that entered process (or initialize) gets its result, also when
\* process finds the engine or stream missing and runs initialize() while
\* it holds the lock.
C33_ProcessReturns ==
    \A c \in Callers :
        (prPc[c] \in {"wait_lock", "init_wait_lock"}) ~> (prPc[c] = "done")

\* C34: whenever a recording session runs in a conversation (which only a
\* wake Trigger starts), calibration has run at least once:
\* energy_threshold is set, however early in the listening the trigger came.
C34_CalibratedBeforeRecording ==
    (corePc = "conversation" /\ cvPc = "recording") =>
        energy_threshold # NoNumber

\* C35: the lock file gives mutual exclusion between processes: at most
\* one live process is in the device section at a time, and no process
\* ever removes a lock file that belongs to another live process.
C35_LockFileExcludes ==
    /\ \A p, q \in Procs :
         (lfAlive[p] /\ lfAlive[q] /\ lfPc[p] = "section"
            /\ lfPc[q] = "section") => p = q
    /\ ~foreign_removed

\* C36: audio_available is a one-way latch: no step sets it back to True
\* once it is False, and a play_audio call that starts while it is False
\* returns at once: it opens no stream and writes no chunk.
C36_OneWayLatch ==
    [][/\ ~audio_available => ~audio_available'
       /\ (~audio_available /\ plPc = "idle" /\ plPc' # "idle") =>
              /\ plPc' = "done" /\ plEnd' = "unavailable"
              /\ UNCHANGED <<out_stream, current_stream, chunks_written>>
      ]_vars

\* after a failure switched the flag off, a later call has returned at once
C36_Witness ==
    /\ ~audio_available
    /\ plPc = "done" /\ plEnd = "unavailable"

\* C37: device_error_count is never reset: no step, the return of a
\* record_question call and the start of the next one included, makes it
\* smaller; and once max_device_errors read errors have been counted,
\* every further read error closes the stream and ends the call with no
\* utterance.
C37_ErrorCountNeverReset ==
    [][/\ device_error_count' >= device_error_count
       /\ (device_error_count >= max_device_errors
             /\ device_error_count' > device_error_count) =>
              /\ rqPc' = "finally" /\ rqResult' = "None"
              /\ stream' = None
      ]_vars

\* a call made after the limit was reached ended at its first read error
C37_Witness ==
    /\ device_error_count = max_device_errors + 1
    /\ rqPc = "finally" /\ rqResult = "None"
    /\ stream = None
    /\ total_chunks = 0

\* C38: after every return of generate_ai_reply, on success and on every
\* error or retry path, conversation_history holds at most 11 entries, its
\* first entry is the system prompt, and the call has appended the user's
\* message exactly once.
C38_HistoryBounded ==
    gaPc = "done" =>
        /\ Len(conversation_history) <= history_limit
        /\ conversation_history[1] = "system"
        /\ user_appends = 1

\* C39: _emergency_cleanup never tears the display down: the
\* cleanup_display call it makes is skipped because _is_cleaning is set,
\* so no step of the error path changes display_manager, _active or the
\* server connection; and while an emergency cleanup is in progress no
\* teardown body runs: a cleanup_display call of another task made in
\* that time returns without releasing anything.
EmergencyInProgress ==
    dcPc["error_path"] \in {"em_white", "wait_lock", "em_finally"}

C39_EmergencyTearsNothingDown ==
    /\ [](dispLock # "error_path")
    /\ [](EmergencyInProgress => is_cleaning /\ dispLock = "free")
    /\ [][dcPc'["error_path"] # dcPc["error_path"] =>
            UNCHANGED <<dm_set, dm_active, server_releases, disp_bodies>>
         ]_vars
    /\ [][(EmergencyInProgress /\ EmergencyInProgress') =>
            UNCHANGED <<dm_set, dm_active, server_releases, disp_bodies>>
         ]_vars

\* the error path ran to its end and the call of SpeakerCore.cleanup made
\* in the meantime returned, with the display still in place
C39_Witness ==
    /\ dcPc["error_path"] = "done" /\ dcPc["core_cleanup"] = "done"
    /\ dm_set /\ dm_active
    /\ disp_bodies = 0 /\ server_releases = 0

\* C40 (as stated): for every interleaving of the callback and read(), the
\* queue never holds more than its maximum size; an overflow drops the
\* incoming frame, discards the oldest half of the queued frames (half of
\* what the queue holds when the callback looks) and adds exactly one to
\* the overflow count; the frames read() delivers keep their capture order.
SeqSet(s) == {s[i] : i \in 1 .. Len(s)}
Increasing(s) == \A i, j \in 1 .. Len(s) : i < j => s[i] < s[j]
OverflowHandled == cbPc = "idle" /\ overflow_count > 0

C40_Common ==
    /\ Len(audio_queue) <= QueueMax
    /\ dropped \cap (SeqSet(audio_queue) \cup SeqSet(delivered)) = {}
    /\ overflow_count =
           Cardinality(dropped) - (IF cbPc = "full" THEN 1 ELSE 0)
    /\ \A d \in discarded : \A i \in 1 .. Len(audio_queue) :
           d < audio_queue[i]
    /\ Increasing(delivered) /\ Increasing(audio_queue)
    /\ discarded \cap SeqSet(delivered) = {}

====
